---- MODULE Spec2Model ----
(***************************************************************************)
(* ButteMAP requirement satisfaction engine (src/app.js).                  *)
(*                                                                         *)
(* SpecProgram models one call of evaluateProgram: the CROSS_LIST_UNITS    *)
(* allocation, the ALL/LIST pass, the COUNT sections, the UNITS sections   *)
(* and the atom scoring, in the order the function runs them.              *)
(* SpecGE models one call of evaluateGE: the walk over the logic tree and  *)
(* the per-area summary.                                                   *)
(* SpecPrereq models one call of checkPrereqsMet on a requirement tree.    *)
(* SpecRepeat models evaluateProgram and evaluateGE calls in sequence on   *)
(* the same catalog objects.                                               *)
(***************************************************************************)
EXTENDS Integers, Sequences, FiniteSets, TLC

VARIABLES
  detail,             \* program detail: sections (catalog objects) and cross_list_rules
  takenSet,           \* canonical codes available to match
  skipGESections,     \* evaluateProgram's fourth parameter
  pc,                 \* position inside evaluateProgram / evaluateGE
  k,                  \* index of the loop the position is in
  sections,           \* per-call working copies built by indexSectionItems
  usedSet,            \* codes consumed by this evaluateProgram call
  cross,              \* locals and result of evalCrossListUnits
  report,             \* report rows of the COUNT and UNITS sections
  requiredAtomCount,
  metAtomCount,
  result,             \* the object evaluateProgram returns
  ge,                 \* GE pattern: logic tree, buckets, attributes
  okCourses,          \* passed courses and exam pseudo-courses
  geState,            \* used, alloc, orGroups, orChoice and the OR trial records
  geResult,           \* the object evaluateGE returns
  prereqs,            \* RequirementTree of the course checked (null when it has none)
  userExams,          \* state.userExams
  prereqResult,       \* the object checkPrereqsMet returns
  earlier             \* results of the calls made before the current one

progVars == <<detail, takenSet, skipGESections, sections, usedSet, cross, report,
              requiredAtomCount, metAtomCount, result>>
geVars == <<ge, okCourses, geState, geResult>>
prereqVars == <<prereqs, userExams, prereqResult>>
sideVars == <<prereqVars, earlier>>
vars == <<pc, k, progVars, geVars, sideVars>>

(***************************************************************************)
(* Bounds of the model                                                     *)
(***************************************************************************)
MaxCount == 2        \* COUNT min and max range over 0..MaxCount (or absent)
MaxMinUnits == 8     \* UNITS min_units ranges over 0..MaxMinUnits
MaxDisciplines == 2  \* UNITS min_disciplines ranges over 0..MaxDisciplines
MaxPerList == 4      \* per_list_min_units values range over 1..MaxPerList
MaxMinTotal == 9     \* CROSS_LIST_UNITS min_units_total ranges over 0..MaxMinTotal
MaxEarlierCalls == 2 \* evaluateProgram calls made before the last one on a catalog
OtherTranscriptSize == 2  \* courses in the transcript of a call between first and last

(***************************************************************************)
(* Catalog: canonical course codes are <<prefix, number>> pairs            *)
(***************************************************************************)
BIOL1 == <<"BIOL", 1>>
BIO2 == <<"BIO", 2>>
CHEM1 == <<"CHEM", 1>>
MATH1 == <<"MATH", 1>>
MATH2 == <<"MATH", 2>>
Codes == {BIOL1, BIO2, CHEM1, MATH1}

\* state.coursesIndex.get(code).MinimumCredits
MinimumCredits(code) ==
  CASE code = BIOL1 -> 4
    [] code = BIO2 -> 3
    [] code = CHEM1 -> 5
    [] code = MATH1 -> 3
    [] code = MATH2 -> 4
    [] OTHER -> 0

\* state.courseAliases.prefix_alias_to_canonical_prefix
prefixAliases(prefix) == IF prefix = "BIO" THEN "BIOL" ELSE prefix

prefixOf(code) == code[1]

disciplineFromPrefix(code) == prefixAliases(prefixOf(code))

\* an optional JSON number: <<>> when the field is absent, <<n>> when present
Absent == << >>
OrElse(v, d) == IF v = Absent THEN d ELSE v[1]

\* obj[key] || 0 on a JSON object of numbers
Get0(obj, key) == IF key \in DOMAIN obj THEN obj[key] ELSE 0

NoCode == <<"", 0>>
NULL == [code |-> NoCode, units |-> 0]

\* a const binding: the value is computed once and then named
Bind(value, Body(_)) == CHOOSE r \in {Body(x) : x \in {value}} : TRUE

\* a.reduce((x, y) => x + y, 0)
RECURSIVE sum(_)
sum(a) == IF a = << >> THEN 0 ELSE Head(a) + sum(Tail(a))

SeqMap(Op(_), s) == [i \in 1..Len(s) |-> Op(s[i])]

RECURSIVE SeqFilter(_, _)
SeqFilter(Keep(_), s) ==
  IF s = << >> THEN << >>
  ELSE IF Keep(Head(s)) THEN <<Head(s)>> \o SeqFilter(Keep, Tail(s))
       ELSE SeqFilter(Keep, Tail(s))

RECURSIVE Flat(_)
Flat(ss) == IF ss = << >> THEN << >> ELSE Head(ss) \o Flat(Tail(ss))

Range(s) == {s[i] : i \in 1..Len(s)}

NoDuplicates(s) == \A i, j \in 1..Len(s) : i # j => s[i] # s[j]

\* Array.prototype.sort with a comparator: stable; Before(a, b) is compare(a, b) < 0.
\* The last element goes behind every element it does not sort strictly before.
RECURSIVE StableSort(_, _)
StableSort(Before(_, _), s) ==
  IF s = << >> THEN << >>
  ELSE Bind(StableSort(Before, SubSeq(s, 1, Len(s) - 1)), LAMBDA front :
         LET x == s[Len(s)]
             n == Cardinality({i \in 1..Len(front) : ~Before(x, front[i])})
         IN SubSeq(front, 1, n) \o <<x>> \o SubSeq(front, n + 1, Len(front)))

\* sort((a, b) => b.units - a.units)
SortByUnitsDesc(s) == StableSort(LAMBDA a, b : a.units > b.units, s)

(***************************************************************************)
(* Program definitions (catalog JSON)                                      *)
(***************************************************************************)
Opt(code, units) == [code |-> code, units |-> units]

\* a catalog item: evalCrossListUnits writes matched/chosen onto these objects
Item(any_of) == [any_of |-> any_of, matched |-> FALSE, chosen |-> NULL]

Rule(type, min, max, min_units, min_disciplines, allow_from, per_list_min_units) ==
  [type |-> type, min |-> min, max |-> max, min_units |-> min_units,
   min_disciplines |-> min_disciplines, allow_from |-> allow_from,
   per_list_min_units |-> per_list_min_units]

Section(name, rule, items) == [name |-> name, rule |-> rule, items |-> items]

CrossRule(type, applies_to, per_list_min_units, min_units_total) ==
  [type |-> type, applies_to |-> applies_to,
   per_list_min_units |-> per_list_min_units, min_units_total |-> min_units_total]

PlainRule(type) == Rule(type, Absent, Absent, Absent, Absent, << >>, << >>)

OptNums(S) == {Absent} \cup {<<n>> : n \in S}

\* ALL, a LIST section (named "Select two" or "Electives") and a GE section
AllProgram(listName) ==
  [sections |-> <<
     Section("Core", PlainRule(""),
       <<Item(<<Opt(BIOL1, <<4>>)>>),
         Item(<<Opt(CHEM1, <<5>>)>>),
         Item(<<Opt(CHEM1, <<5>>), Opt(MATH1, Absent)>>)>>),
     Section(listName, PlainRule("LIST"),
       <<Item(<<Opt(BIO2, <<3>>)>>),
         Item(<<Opt(MATH1, <<3>>)>>),
         Item(<<Opt(CHEM1, <<5>>)>>)>>),
     Section("GE Area B", PlainRule("all"),
       <<Item(<<Opt(MATH1, <<3>>)>>),
         Item(<<Opt(BIO2, <<3>>)>>)>>)>>,
   cross_list_rules |-> << >>]

\* two ALL sections whose items share options
AllOnlyProgram ==
  [sections |-> <<
     Section("Core", PlainRule("ALL"),
       <<Item(<<Opt(CHEM1, <<5>>), Opt(MATH1, <<3>>)>>),
         Item(<<Opt(CHEM1, <<5>>), Opt(BIO2, <<3>>)>>),
         Item(<<Opt(BIOL1, <<4>>)>>)>>),
     Section("Major", PlainRule("all"),
       <<Item(<<Opt(BIOL1, <<4>>)>>),
         Item(<<Opt(BIOL1, <<4>>), Opt(CHEM1, <<5>>)>>)>>)>>,
   cross_list_rules |-> << >>]

\* a COUNT section that may borrow from a later COUNT section
CountProgram(mn, mx, allow) ==
  [sections |-> <<
     Section("Elect", Rule("COUNT", mn, mx, Absent, Absent, allow, << >>),
       <<Item(<<Opt(BIOL1, <<4>>)>>),
         Item(<<Opt(BIO2, <<3>>), Opt(CHEM1, <<5>>)>>),
         Item(<<Opt(MATH1, <<3>>)>>)>>),
     Section("Pool", Rule("count", <<1>>, Absent, Absent, Absent, << >>, << >>),
       <<Item(<<Opt(CHEM1, <<5>>)>>),
         Item(<<Opt(MATH1, <<3>>), Opt(BIOL1, <<4>>)>>)>>),
     Section("Extra", Rule("count", <<1>>, Absent, Absent, Absent, << >>, << >>),
       <<Item(<<Opt(BIO2, <<3>>)>>)>>)>>,
   cross_list_rules |-> << >>]

\* a UNITS section after an ALL section and a COUNT pool it may borrow from
UnitsProgram(mu, md, allow, pl) ==
  [sections |-> <<
     Section("Core", PlainRule("ALL"), <<Item(<<Opt(BIOL1, <<4>>)>>)>>),
     Section("Pool", Rule("COUNT", <<1>>, <<1>>, Absent, Absent, << >>, << >>),
       <<Item(<<Opt(MATH1, <<3>>)>>),
         Item(<<Opt(CHEM1, <<5>>)>>),
         Item(<<Opt(BIO2, <<3>>)>>)>>),
     Section("Sci", Rule("UNITS", Absent, Absent, mu, md, allow, pl),
       <<Item(<<Opt(BIOL1, <<4>>), Opt(BIO2, <<3>>)>>),
         Item(<<Opt(CHEM1, <<5>>)>>),
         Item(<<Opt(MATH1, <<3>>)>>)>>)>>,
   cross_list_rules |-> << >>]

\* two LIST sections pooled by a CROSS_LIST_UNITS rule, and an ALL section
CrossProgram(pm, mt) ==
  [sections |-> <<
     Section("X", PlainRule("LIST"),
       <<Item(<<Opt(BIOL1, <<4>>)>>),
         Item(<<Opt(CHEM1, <<5>>), Opt(BIO2, <<3>>)>>)>>),
     Section("Y", PlainRule("LIST"),
       <<Item(<<Opt(CHEM1, <<5>>)>>),
         Item(<<Opt(MATH1, <<3>>)>>),
         Item(<<Opt(BIOL1, <<4>>)>>)>>),
     Section("Core", PlainRule("ALL"), <<Item(<<Opt(MATH1, <<3>>)>>)>>)>>,
   cross_list_rules |-> <<CrossRule("CROSS_LIST_UNITS", <<"X", "Y">>, pm, mt)>>]

PerListChoices(names) ==
  UNION {[S -> 1..MaxPerList] : S \in SUBSET names}

Programs ==
  {AllProgram(listName) : listName \in {"Select two", "Electives"}}
  \cup {AllOnlyProgram}
  \cup {CountProgram(mn, mx, allow) :
          mn \in OptNums(0..MaxCount), mx \in OptNums(0..MaxCount),
          allow \in {<<"Pool">>, <<"Pool", "Extra">>, <<"Extra", "Pool">>}}
  \cup {UnitsProgram(mu, md, allow, pl) :
          mu \in OptNums(0..MaxMinUnits), md \in OptNums(1..MaxDisciplines),
          allow \in {<< >>, <<"Pool">>}, pl \in PerListChoices({"Pool"})}
  \cup {CrossProgram(pm, mt) : pm \in PerListChoices({"X", "Y"}), mt \in 0..MaxMinTotal}
  \cup {CrossProgram(pm, mt) : pm \in [{"X", "Core"} -> 1..MaxPerList],
                               mt \in 0..MaxMinTotal}

(***************************************************************************)
(* Rule-aware program evaluator: helpers                                   *)
(***************************************************************************)
\* String.prototype.toUpperCase on the rule types of the catalog
toUpperCase(t) ==
  CASE t = "all" -> "ALL"
    [] t = "list" -> "LIST"
    [] t = "count" -> "COUNT"
    [] t = "units" -> "UNITS"
    [] OTHER -> t

ruleTypeOf(t) == toUpperCase(IF t = "" THEN "ALL" ELSE t)

sectionIsInCrossList(program, sectionName) ==
  \E i \in 1..Len(program.cross_list_rules) :
    /\ program.cross_list_rules[i].type = "CROSS_LIST_UNITS"
    /\ sectionName \in Range(program.cross_list_rules[i].applies_to)

isAllish(program, section) ==
  LET x == ruleTypeOf(section.rule.type) IN
  IF x = "ALL" THEN TRUE
  ELSE IF x = "LIST" THEN ~sectionIsInCrossList(program, section.name)
  ELSE FALSE

\* /^GE\s|General Education/i on the section names of the catalog
isGESection(name) == name \in {"GE Area B"}

\* the word captured by /^\s*Select\s+(\w+)/i, "" when the name does not match
SelectWord(name) == IF name = "Select two" THEN "two" ELSE ""

wordsToNum(w) ==
  CASE w = "one" -> 1 [] w = "two" -> 2 [] w = "three" -> 3 [] w = "four" -> 4
    [] w = "five" -> 5 [] w = "six" -> 6 [] w = "seven" -> 7 [] w = "eight" -> 8
    [] w = "nine" -> 9 [] w = "ten" -> 10 [] OTHER -> 0

coerceSelectCountRule(sec) ==
  IF /\ SelectWord(sec.name) # ""
     /\ ruleTypeOf(sec.rule.type) = "LIST"
     /\ wordsToNum(SelectWord(sec.name)) # 0
  THEN [sec EXCEPT !.rule = Rule("COUNT", <<wordsToNum(SelectWord(sec.name))>>,
                                 <<wordsToNum(SelectWord(sec.name))>>,
                                 Absent, Absent, << >>, << >>)]
  ELSE sec

indexSectionItems(section) ==
  [idx \in 1..Len(section.items) |->
     [sectionName |-> section.name,
      itemIdx |-> idx,
      options |-> [o \in 1..Len(section.items[idx].any_of) |->
                     LET opt == section.items[idx].any_of[o] IN
                     [code |-> opt.code,
                      units |-> IF opt.units = Absent
                                THEN MinimumCredits(opt.code)
                                ELSE opt.units[1]]],
      matched |-> FALSE,
      chosen |-> NULL]]

\* the working copy of one section (evaluateProgram, sections = detail.sections.map)
WorkingSection(s0) ==
  LET sec == coerceSelectCountRule(s0) IN
  [name |-> sec.name, rule |-> sec.rule, items |-> indexSectionItems(sec),
   chosen |-> << >>, units |-> 0]

RECURSIVE FirstMatchFrom(_, _, _, _)
FirstMatchFrom(options, i, taken, used) ==
  IF i > Len(options) THEN NULL
  ELSE IF options[i].code \in taken /\ options[i].code \notin used THEN options[i]
       ELSE FirstMatchFrom(options, i + 1, taken, used)

\* the scan ending at the first taken option, consumed or not (mutation)
RECURSIVE FirstTakenFrom(_, _, _, _)
FirstTakenFrom(options, i, taken, used) ==
  IF i > Len(options) THEN NULL
  ELSE IF options[i].code \in taken
       THEN (IF options[i].code \notin used THEN options[i] ELSE NULL)
       ELSE FirstTakenFrom(options, i + 1, taken, used)

findMatchForItem_StopAtTaken(item, taken, used) ==
  FirstTakenFrom(item.options, 1, taken, used)

\* findMatchForItem without the consumed-set guard (mutation of the matcher)
findMatchForItem_NoUsedGuard(item, taken, used) ==
  FirstMatchFrom(item.options, 1, taken, {})

findMatchForItem(item, taken, used) == FirstMatchFrom(item.options, 1, taken, used)

\* poolsByList[listName] || [] : the index of the section that owns the pool, 0 when none
PoolIndex(secs, listName) ==
  IF \E i \in 1..Len(secs) : secs[i].name = listName
  THEN CHOOSE i \in 1..Len(secs) :
         /\ secs[i].name = listName
         /\ \A j \in (i + 1)..Len(secs) : secs[j].name # listName
  ELSE 0

\* item.matched = true; item.chosen = pick; usedSet.add(pick.code)
MarkItem(w, si, ii, pick) ==
  [w EXCEPT !.secs[si].items[ii].matched = TRUE,
            !.secs[si].items[ii].chosen = pick,
            !.used = @ \cup {pick.code}]

(***************************************************************************)
(* evalCrossListUnits                                                      *)
(***************************************************************************)
\* (program.detail.cross_list_rules || []).find(r => r.type === 'CROSS_LIST_UNITS')
FindCrossRule(d) ==
  IF \E i \in 1..Len(d.cross_list_rules) : d.cross_list_rules[i].type = "CROSS_LIST_UNITS"
  THEN CHOOSE i \in 1..Len(d.cross_list_rules) :
         /\ d.cross_list_rules[i].type = "CROSS_LIST_UNITS"
         /\ \A j \in 1..(i - 1) : d.cross_list_rules[j].type # "CROSS_LIST_UNITS"
  ELSE 0

\* indices of the sections named by applies_to, in section order
PooledSections(d, rule) ==
  LET Pooled(i) == d.sections[i].name \in Range(rule.applies_to) IN
  SeqFilter(Pooled, [i \in 1..Len(d.sections) |-> i])

\* the pool without the items an earlier call left marked (mutation)
SectionPool_UnmarkedOnly(d, si) ==
  Flat([ii \in 1..Len(d.sections[si].items) |->
          IF d.sections[si].items[ii].matched THEN << >>
          ELSE [o \in 1..Len(d.sections[si].items[ii].any_of) |->
                  LET opt == d.sections[si].items[ii].any_of[o] IN
                  [code |-> opt.code,
                   units |-> IF opt.units = Absent THEN 0 ELSE opt.units[1],
                   si |-> si, ii |-> ii]]])

\* sectionPool[s.name]: one entry per option of every item; itemRef is <<si, ii>>
SectionPool(d, si) ==
  Flat([ii \in 1..Len(d.sections[si].items) |->
          [o \in 1..Len(d.sections[si].items[ii].any_of) |->
             LET opt == d.sections[si].items[ii].any_of[o] IN
             [code |-> opt.code,
              units |-> IF opt.units = Absent THEN 0 ELSE opt.units[1],
              si |-> si, ii |-> ii]]])

\* hitsBySection[name]: the pool's taken entries, highest units first
HitsOfPool(d, si, taken) ==
  LET Taken(x) == x.code \in taken IN
  SortByUnitsDesc(SeqFilter(Taken, SectionPool(d, si)))

NoCross ==
  [present |-> FALSE, names |-> << >>, secIdx |-> << >>, hits |-> << >>,
   usedCodes |-> {}, earnedBySection |-> << >>, chosenBySection |-> << >>,
   totalUnits |-> 0, leftovers |-> << >>, minTotal |-> 0, perMin |-> << >>,
   done |-> FALSE]

\* the locals of evalCrossListUnits before the per-list pass
InitCross(d, taken) ==
  IF FindCrossRule(d) = 0 THEN NoCross
  ELSE LET rule == d.cross_list_rules[FindCrossRule(d)]
           idxs == PooledSections(d, rule)
       IN [present |-> TRUE,
           names |-> [n \in 1..Len(idxs) |-> d.sections[idxs[n]].name],
           secIdx |-> idxs,
           hits |-> [n \in 1..Len(idxs) |-> HitsOfPool(d, idxs[n], taken)],
           usedCodes |-> {},
           earnedBySection |-> [n \in 1..Len(idxs) |-> 0],
           chosenBySection |-> [n \in 1..Len(idxs) |-> << >>],
           totalUnits |-> 0,
           leftovers |-> << >>,
           minTotal |-> rule.min_units_total,
           perMin |-> rule.per_list_min_units,
           done |-> FALSE]

\* usedCodes.add; usedSet.add; earnedBySection[n] += units; itemRef.matched/chosen;
\* chosenBySection[n].push(h)
ConsumeHit(st, n, h) ==
  [c |-> [st.c EXCEPT !.usedCodes = @ \cup {h.code},
                      !.earnedBySection[n] = @ + h.units,
                      !.chosenBySection[n] = Append(@, h)],
   used |-> st.used \cup {h.code},
   d |-> [st.d EXCEPT !.sections[h.si].items[h.ii].matched = TRUE,
                      !.sections[h.si].items[h.ii].chosen =
                         [code |-> h.code, units |-> h.units]]]

\* the per-list loop over hitsBySection[name] for pool n, from hit j on
RECURSIVE PerListLoop(_, _, _, _)
PerListLoop(st, n, j, need) ==
  IF j > Len(st.c.hits[n]) \/ st.c.earnedBySection[n] >= need THEN st
  ELSE LET h == st.c.hits[n][j] IN
       IF h.code \in st.c.usedCodes \/ h.code \in st.used
       THEN PerListLoop(st, n, j + 1, need)
       ELSE PerListLoop(ConsumeHit(st, n, h), n, j + 1, need)

\* the leftovers collected without the usedCodes / usedSet test (mutation)
IsLeftover_Unfiltered(c, used, h) == TRUE

\* is the hit still available when the leftovers are collected
IsLeftover(c, used, h) == h.code \notin c.usedCodes /\ h.code \notin used

\* leftovers: the unconsumed hits of every pool, each tagged with its pool's
\* position n and name, highest units first
Leftovers(c, used) ==
  LET Free(h) == IsLeftover(c, used, h) IN
  SortByUnitsDesc(
    Flat([n \in 1..Len(c.names) |->
            LET free == SeqFilter(Free, c.hits[n]) IN
            [j \in 1..Len(free) |->
               [code |-> free[j].code, units |-> free[j].units,
                si |-> free[j].si, ii |-> free[j].ii,
                n |-> n, name |-> c.names[n]]]]))

\* one iteration of the top-up loop
TopUpStep(st, h) ==
  LET t == ConsumeHit(st, h.n, h) IN
  [t EXCEPT !.c.totalUnits = @ + h.units]

\* perListOK && totalUnits >= minTotal
CrossDone(c) ==
  /\ \A n \in 1..Len(c.names) : c.earnedBySection[n] >= Get0(c.perMin, c.names[n])
  /\ c.totalUnits >= c.minTotal

(***************************************************************************)
(* evaluateProgram: setup and the cross-list allocation                    *)
(***************************************************************************)
NoResult ==
  [pct |-> 0, requiredItems |-> 0, satisfied |-> 0, cross_list_checks |-> << >>,
   hasCross |-> FALSE, isComplete |-> FALSE]

GEIdle ==
  /\ ge = << >>
  /\ okCourses = {}
  /\ geState = << >>
  /\ geResult = << >>

PrereqIdle ==
  /\ prereqs = << >>
  /\ userExams = {}
  /\ prereqResult = << >>

HasGESection(d) == \E i \in 1..Len(d.sections) : isGESection(d.sections[i].name)

InitProgram ==
  /\ detail \in Programs
  /\ takenSet \in SUBSET Codes
  /\ skipGESections \in (IF HasGESection(detail) THEN BOOLEAN ELSE {FALSE})
  /\ pc = "start"
  /\ k = 1
  /\ sections = << >>
  /\ usedSet = {}
  /\ cross = NoCross
  /\ report = << >>
  /\ requiredAtomCount = 0
  /\ metAtomCount = 0
  /\ result = NoResult
  /\ GEIdle
  /\ PrereqIdle
  /\ earlier = << >>

\* lines 337-354: working copies, empty usedSet, entry into evalCrossListUnits
Begin ==
  /\ pc = "start"
  /\ sections' = [i \in 1..Len(detail.sections) |-> WorkingSection(detail.sections[i])]
  /\ usedSet' = {}
  /\ report' = << >>
  /\ requiredAtomCount' = 0
  /\ metAtomCount' = 0
  /\ cross' = InitCross(detail, takenSet)
  /\ pc' = IF cross'.present THEN "perlist" ELSE "allish"
  /\ k' = 1
  /\ UNCHANGED <<detail, takenSet, skipGESections, result, geVars, sideVars>>

\* pass 1 for pool k: consume its highest-unit hits until its minimum is met
CrossPerList ==
  /\ pc = "perlist"
  /\ k <= Len(cross.names)
  /\ LET st == PerListLoop([c |-> cross, used |-> usedSet, d |-> detail], k, 1,
                           Get0(cross.perMin, cross.names[k]))
     IN /\ cross' = st.c
        /\ usedSet' = st.used
        /\ detail' = st.d
  /\ k' = k + 1
  /\ UNCHANGED <<pc, takenSet, skipGESections, sections, report, requiredAtomCount,
                 metAtomCount, result, geVars, sideVars>>

\* totalUnits and the sorted leftovers, once every pool had its pass
CrossLeftovers ==
  /\ pc = "perlist"
  /\ k > Len(cross.names)
  /\ cross' = [cross EXCEPT !.totalUnits = sum(cross.earnedBySection),
                            !.leftovers = Leftovers(cross, usedSet)]
  /\ pc' = "topup"
  /\ k' = 1
  /\ UNCHANGED <<detail, takenSet, skipGESections, sections, usedSet, report,
                 requiredAtomCount, metAtomCount, result, geVars, sideVars>>

\* pass 2: the next leftover is consumed while the total is short
CrossTopUp ==
  /\ pc = "topup"
  /\ k <= Len(cross.leftovers)
  /\ cross.totalUnits < cross.minTotal
  /\ LET st == TopUpStep([c |-> cross, used |-> usedSet, d |-> detail],
                         cross.leftovers[k])
     IN /\ cross' = st.c
        /\ usedSet' = st.used
        /\ detail' = st.d
  /\ k' = k + 1
  /\ UNCHANGED <<pc, takenSet, skipGESections, sections, report, requiredAtomCount,
                 metAtomCount, result, geVars, sideVars>>

\* the top-up loop ends; evalCrossListUnits returns
CrossReturn ==
  /\ pc = "topup"
  /\ ~(k <= Len(cross.leftovers) /\ cross.totalUnits < cross.minTotal)
  /\ cross' = [cross EXCEPT !.done = CrossDone(cross)]
  /\ pc' = "allish"
  /\ k' = 1
  /\ UNCHANGED <<detail, takenSet, skipGESections, sections, usedSet, report,
                 requiredAtomCount, metAtomCount, result, geVars, sideVars>>

(***************************************************************************)
(* ALL / LIST sections (evaluateProgram, lines 356-368)                    *)
(***************************************************************************)
\* the loop over the items of one allish section, from item ii on;
\* a = [w: [secs, used], req, met]
RECURSIVE AllishItems(_, _, _, _)
AllishItems(a, si, ii, taken) ==
  IF ii > Len(a.w.secs[si].items) THEN a
  ELSE LET pick == findMatchForItem(a.w.secs[si].items[ii], taken, a.w.used) IN
       IF pick # NULL
       THEN AllishItems([w |-> MarkItem(a.w, si, ii, pick),
                         req |-> a.req + 1, met |-> a.met + 1], si, ii + 1, taken)
       ELSE AllishItems([a EXCEPT !.req = @ + 1], si, ii + 1, taken)

Skipped(skip, name) == skip /\ isGESection(name)

RECURSIVE AllishSections(_, _, _, _, _)
AllishSections(a, si, d, taken, skip) ==
  IF si > Len(a.w.secs) THEN a
  ELSE IF isAllish(d, a.w.secs[si]) /\ ~Skipped(skip, a.w.secs[si].name)
       THEN AllishSections(AllishItems(a, si, 1, taken), si + 1, d, taken, skip)
       ELSE AllishSections(a, si + 1, d, taken, skip)

EvalAllish ==
  /\ pc = "allish"
  /\ LET a == AllishSections([w |-> [secs |-> sections, used |-> usedSet],
                              req |-> requiredAtomCount, met |-> metAtomCount],
                             1, detail, takenSet, skipGESections)
     IN /\ sections' = a.w.secs
        /\ usedSet' = a.w.used
        /\ requiredAtomCount' = a.req
        /\ metAtomCount' = a.met
  /\ pc' = "count"
  /\ k' = 1
  /\ UNCHANGED <<detail, takenSet, skipGESections, cross, report, result, geVars, sideVars>>

(***************************************************************************)
(* satisfyCountSection                                                     *)
(***************************************************************************)
\* the local loop, from item ii on; a = [w, chosen]
RECURSIVE CountLocal(_, _, _, _, _)
CountLocal(a, si, ii, max, taken) ==
  IF ii > Len(a.w.secs[si].items) \/ Len(a.chosen) >= max THEN a
  ELSE LET pick == findMatchForItem(a.w.secs[si].items[ii], taken, a.w.used) IN
       IF pick # NULL
       THEN CountLocal([w |-> MarkItem(a.w, si, ii, pick),
                        chosen |-> Append(a.chosen,
                                     [code |-> pick.code, units |-> pick.units,
                                      from |-> a.w.secs[si].name])],
                       si, ii + 1, max, taken)
       ELSE CountLocal(a, si, ii + 1, max, taken)

\* the loop over the items of one allow_from pool, from item j on
RECURSIVE CountBorrowPool(_, _, _, _, _, _)
CountBorrowPool(a, pi, j, need, listName, taken) ==
  IF pi = 0 \/ j > Len(a.w.secs[pi].items) \/ Len(a.chosen) >= need THEN a
  ELSE IF a.w.secs[pi].items[j].matched
       THEN CountBorrowPool(a, pi, j + 1, need, listName, taken)
       ELSE LET pick == findMatchForItem(a.w.secs[pi].items[j], taken, a.w.used) IN
            IF pick # NULL
            THEN CountBorrowPool([w |-> MarkItem(a.w, pi, j, pick),
                                  chosen |-> Append(a.chosen,
                                               [code |-> pick.code, units |-> pick.units,
                                                from |-> listName])],
                                 pi, j + 1, need, listName, taken)
            ELSE CountBorrowPool(a, pi, j + 1, need, listName, taken)

\* borrowing that looks at the first allow_from pool only (mutation)
CountBorrow_FirstPoolOnly(a, allow, ai, need, taken) ==
  IF allow = << >> THEN a
  ELSE CountBorrowPool(a, PoolIndex(a.w.secs, allow[1]), 1, need, allow[1], taken)

\* the loop over allow_from, from list ai on
RECURSIVE CountBorrow(_, _, _, _, _)
CountBorrow(a, allow, ai, need, taken) ==
  IF ai > Len(allow) \/ Len(a.chosen) >= need THEN a
  ELSE CountBorrow(CountBorrowPool(a, PoolIndex(a.w.secs, allow[ai]), 1, need,
                                   allow[ai], taken),
                   allow, ai + 1, need, taken)

satisfyCountSection(w, si, taken) ==
  LET rule == w.secs[si].rule
      need == OrElse(rule.min, 1)
      max == OrElse(rule.max, need)
      local == CountLocal([w |-> w, chosen |-> << >>], si, 1, max, taken)
      a == CountBorrow(local, rule.allow_from, 1, need, taken)
  IN [w |-> a.w, chosen |-> a.chosen, need |-> need, max |-> max]

Min(a, b) == IF a <= b THEN a ELSE b

IsCountSection(d, sec) ==
  ruleTypeOf(sec.rule.type) = "COUNT" /\ ~sectionIsInCrossList(d, sec.name)

\* lines 370-387 for section k, when it is a COUNT section that is evaluated
EvalCount ==
  /\ pc = "count"
  /\ k <= Len(sections)
  /\ IF IsCountSection(detail, sections[k]) /\ ~Skipped(skipGESections, sections[k].name)
     THEN LET r == satisfyCountSection([secs |-> sections, used |-> usedSet], k, takenSet)
          IN /\ sections' = [r.w.secs EXCEPT ![k].chosen = r.chosen]
             /\ usedSet' = r.w.used
             /\ requiredAtomCount' = requiredAtomCount + r.need
             /\ metAtomCount' = metAtomCount + Min(Len(r.chosen), r.need)
             /\ report' = Append(report,
                            [section |-> sections[k].name,
                             met |-> r.chosen,
                             missing |-> IF Len(r.chosen) >= r.need THEN << >>
                                         ELSE <<[kind |-> "more from",
                                                 n |-> r.need - Len(r.chosen),
                                                 list |-> sections[k].name]>>])
     ELSE UNCHANGED <<sections, usedSet, requiredAtomCount, metAtomCount, report>>
  /\ k' = k + 1
  /\ UNCHANGED <<pc, detail, takenSet, skipGESections, cross, result, geVars, sideVars>>

EvalCountDone ==
  /\ pc = "count"
  /\ k > Len(sections)
  /\ pc' = "units"
  /\ k' = 1
  /\ UNCHANGED <<progVars, geVars, sideVars>>

(***************************************************************************)
(* satisfyUnitsSection                                                     *)
(***************************************************************************)
\* item.matched = true; item.chosen = pick; usedSet.add; chosen.push; gotUnits +=
\* u = [w, chosen, gotUnits]
TakePick(u, si, ii, pick, from) ==
  [w |-> MarkItem(u.w, si, ii, pick),
   chosen |-> Append(u.chosen, [code |-> pick.code, units |-> pick.units,
                                from |-> from]),
   gotUnits |-> u.gotUnits + pick.units]

\* filterFn of the discipline pass: [on |-> FALSE] is the call without a filter
NoFilter == [on |-> FALSE, seen |-> {}]
PassesFilter(filter, pick) ==
  ~filter.on \/ disciplineFromPrefix(pick.code) \notin filter.seen

\* the first entry of availableFromSection() / availableFromList(listName) that
\* passes the filter, scanning pool section pi from item j on: <<j, pick>> or << >>
RECURSIVE FirstAvailable(_, _, _, _, _)
FirstAvailable(u, pi, j, filter, taken) ==
  IF pi = 0 \/ j > Len(u.w.secs[pi].items) THEN << >>
  ELSE IF u.w.secs[pi].items[j].matched
       THEN FirstAvailable(u, pi, j + 1, filter, taken)
       ELSE LET pick == findMatchForItem(u.w.secs[pi].items[j], taken, u.w.used) IN
            IF pick # NULL /\ PassesFilter(filter, pick) THEN <<j, pick>>
            ELSE FirstAvailable(u, pi, j + 1, filter, taken)

pickOneFromList(u, listName, taken) ==
  LET pi == PoolIndex(u.w.secs, listName)
      next == FirstAvailable(u, pi, 1, NoFilter, taken)
  IN IF next = << >> THEN [found |-> FALSE, u |-> u]
     ELSE [found |-> TRUE, u |-> TakePick(u, pi, next[1], next[2], listName)]

\* the allow_from part of pickWithFilter, from list ai on
RECURSIVE PickFromAllowed(_, _, _, _, _)
PickFromAllowed(u, allow, ai, filter, taken) ==
  IF ai > Len(allow) THEN [found |-> FALSE, u |-> u]
  ELSE LET pi == PoolIndex(u.w.secs, allow[ai])
           next == FirstAvailable(u, pi, 1, filter, taken)
       IN IF next = << >> THEN PickFromAllowed(u, allow, ai + 1, filter, taken)
          ELSE [found |-> TRUE, u |-> TakePick(u, pi, next[1], next[2], allow[ai])]

pickWithFilter(u, si, allow, filter, taken) ==
  LET next == FirstAvailable(u, si, 1, filter, taken) IN
  IF next # << >>
  THEN [found |-> TRUE, u |-> TakePick(u, si, next[1], next[2], u.w.secs[si].name)]
  ELSE PickFromAllowed(u, allow, 1, filter, taken)

DisciplinesOf(chosen) == {disciplineFromPrefix(chosen[i].code) : i \in 1..Len(chosen)}

\* the stop test with > in place of >= (mutation)
UnitsReached_Strict(gotUnits, minUnitsTotal) == gotUnits > minUnitsTotal

\* gotUnits >= minUnitsTotal: the test that stops the local loop and the top-up
UnitsReached(gotUnits, minUnitsTotal) == gotUnits >= minUnitsTotal

\* the while loop of the min_disciplines > 0 branch
RECURSIVE DisciplineLoop(_, _, _, _, _, _, _)
DisciplineLoop(u, si, allow, disciplineSet, minDisciplines, minUnitsTotal, taken) ==
  IF ~(/\ Cardinality(disciplineSet) < minDisciplines
       /\ (\/ ~UnitsReached(u.gotUnits, minUnitsTotal)
           \/ Cardinality(disciplineSet) < minDisciplines))
  THEN u
  ELSE LET r == pickWithFilter(u, si, allow, [on |-> TRUE, seen |-> disciplineSet], taken)
       IN IF ~r.found THEN u
          ELSE IF Cardinality(DisciplinesOf(r.u.chosen)) = Cardinality(disciplineSet)
               THEN r.u
               ELSE DisciplineLoop(r.u, si, allow, DisciplinesOf(r.u.chosen),
                                   minDisciplines, minUnitsTotal, taken)

\* the for loop of the min_disciplines = 0 branch, from item ii on
RECURSIVE LocalUnitsLoop(_, _, _, _, _)
LocalUnitsLoop(u, si, ii, minUnitsTotal, taken) ==
  IF ii > Len(u.w.secs[si].items) \/ UnitsReached(u.gotUnits, minUnitsTotal) THEN u
  ELSE LET pick == findMatchForItem(u.w.secs[si].items[ii], taken, u.w.used) IN
       IF pick # NULL
       THEN LocalUnitsLoop(TakePick(u, si, ii, pick, u.w.secs[si].name),
                           si, ii + 1, minUnitsTotal, taken)
       ELSE LocalUnitsLoop(u, si, ii + 1, minUnitsTotal, taken)

\* chosen.filter(c => c.from === listName).reduce((t, c) => t + (c.units || 0), 0)
UnitsFrom(chosen, listName) ==
  LET From(c) == c.from = listName
      Units(c) == c.units
  IN sum(SeqMap(Units, SeqFilter(From, chosen)))

\* while (have < need) pickOneFromList(listName)
RECURSIVE PerListFill(_, _, _, _)
PerListFill(u, listName, need, taken) ==
  IF UnitsFrom(u.chosen, listName) >= need THEN u
  ELSE LET r == pickOneFromList(u, listName, taken) IN
       IF ~r.found THEN u ELSE PerListFill(r.u, listName, need, taken)

\* for (const listName of allow): enforce perListMin[listName], from list ai on
RECURSIVE PerListMinima(_, _, _, _, _)
PerListMinima(u, allow, ai, perListMin, taken) ==
  IF ai > Len(allow) THEN u
  ELSE PerListMinima(PerListFill(u, allow[ai], Get0(perListMin, allow[ai]), taken),
                     allow, ai + 1, perListMin, taken)

\* while (gotUnits < minUnitsTotal) pickWithFilter()
RECURSIVE TopUpUnits(_, _, _, _, _)
TopUpUnits(u, si, allow, minUnitsTotal, taken) ==
  IF UnitsReached(u.gotUnits, minUnitsTotal) THEN u
  ELSE LET r == pickWithFilter(u, si, allow, NoFilter, taken) IN
       IF ~r.found THEN u ELSE TopUpUnits(r.u, si, allow, minUnitsTotal, taken)

\* the lists whose shortfall the missing list reports
MissingLists(allow, perListMin) == allow

\* the missing list: one record per message; tenths is the amount toFixed(1) prints
MissingOf(chosen, gotUnits, minUnitsTotal, minDisciplines, allow, perListMin) ==
  LET lists == MissingLists(allow, perListMin)
      Short(listName) == UnitsFrom(chosen, listName) < Get0(perListMin, listName)
      Entry(listName) ==
        [kind |-> "more units from", list |-> listName,
         tenths |-> 10 * (Get0(perListMin, listName) - UnitsFrom(chosen, listName))]
  IN (IF minDisciplines > 0 /\ Cardinality(DisciplinesOf(chosen)) < minDisciplines
      THEN <<[kind |-> "disciplines", need |-> minDisciplines,
              have |-> Cardinality(DisciplinesOf(chosen))]>>
      ELSE << >>)
     \o SeqMap(Entry, SeqFilter(Short, lists))
     \o (IF gotUnits < minUnitsTotal
         THEN <<[kind |-> "more units overall", list |-> "",
                 tenths |-> 10 * (minUnitsTotal - gotUnits)]>>
         ELSE << >>)

satisfyUnitsSection(w, si, taken) ==
  LET rule == w.secs[si].rule
      minUnitsTotal == OrElse(rule.min_units, 0)
      minDisciplines == OrElse(rule.min_disciplines, 0)
      allow == rule.allow_from
      perListMin == rule.per_list_min_units
      u0 == [w |-> w, chosen |-> << >>, gotUnits |-> 0]
      u1 == IF minDisciplines > 0
            THEN DisciplineLoop(u0, si, allow, {}, minDisciplines, minUnitsTotal, taken)
            ELSE LocalUnitsLoop(u0, si, 1, minUnitsTotal, taken)
      u2 == PerListMinima(u1, allow, 1, perListMin, taken)
      u3 == TopUpUnits(u2, si, allow, minUnitsTotal, taken)
  IN [w |-> u3.w, chosen |-> u3.chosen, gotUnits |-> u3.gotUnits,
      missing |-> MissingOf(u3.chosen, u3.gotUnits, minUnitsTotal, minDisciplines,
                            allow, perListMin),
      minUnits |-> minUnitsTotal]

(***************************************************************************)
(* evaluateProgram: UNITS sections, atom scoring and the result            *)
(***************************************************************************)
\* Math.ceil(a / b) for a >= 0, b > 0
CeilDiv(a, b) == (a + b - 1) \div b

\* Math.round(a / b) for a >= 0, b > 0
RoundDiv(a, b) == (2 * a + b) \div (2 * b)

\* Math.ceil(minUnits / avgUnits), avgUnits the mean of (c.units || 3) over chosen,
\* 3 when nothing is chosen
estimatedCoursesNeeded(chosen, minUnits) ==
  LET Units3(c) == IF c.units = 0 THEN 3 ELSE c.units IN
  IF Len(chosen) > 0
  THEN CeilDiv(minUnits * Len(chosen), sum(SeqMap(Units3, chosen)))
  ELSE CeilDiv(minUnits, 3)

\* the atoms of a UNITS section without Math.min on the met count (mutation)
UnitsAtoms_Uncapped(chosen, gotUnits, missing, minUnits) ==
  <<estimatedCoursesNeeded(chosen, minUnits), Len(chosen)>>

\* the atoms a UNITS section adds: <<required, met>>
UnitsAtoms(chosen, gotUnits, missing, minUnits) ==
  <<estimatedCoursesNeeded(chosen, minUnits),
    Min(Len(chosen), estimatedCoursesNeeded(chosen, minUnits))>>

\* lines 389-410 for section k, when it is a UNITS section that is evaluated
EvalUnits ==
  /\ pc = "units"
  /\ k <= Len(sections)
  /\ IF ruleTypeOf(sections[k].rule.type) = "UNITS"
        /\ ~Skipped(skipGESections, sections[k].name)
     THEN LET r == satisfyUnitsSection([secs |-> sections, used |-> usedSet], k, takenSet)
              atoms == UnitsAtoms(r.chosen, r.gotUnits, r.missing, r.minUnits)
          IN /\ sections' = [r.w.secs EXCEPT ![k].chosen = r.chosen,
                                             ![k].units = r.gotUnits]
             /\ usedSet' = r.w.used
             /\ requiredAtomCount' = requiredAtomCount + atoms[1]
             /\ metAtomCount' = metAtomCount + atoms[2]
             /\ report' = Append(report,
                            [section |-> sections[k].name,
                             met |-> r.chosen,
                             missing |-> r.missing])
     ELSE UNCHANGED <<sections, usedSet, requiredAtomCount, metAtomCount, report>>
  /\ k' = k + 1
  /\ UNCHANGED <<pc, detail, takenSet, skipGESections, cross, result, geVars, sideVars>>

\* the atoms of the cross-list rule (lines 412-422): <<required, met>>
CrossAtoms(c) ==
  IF ~c.present THEN <<0, 0>>
  ELSE <<1 + Cardinality(DOMAIN c.perMin),
         (IF c.totalUnits >= c.minTotal THEN 1 ELSE 0)
         + Cardinality({lname \in DOMAIN c.perMin :
                          LET n == CHOOSE n \in 0..Len(c.names) :
                                     n = 0 \/ c.names[n] = lname
                              got == IF \E m \in 1..Len(c.names) : c.names[m] = lname
                                     THEN c.earnedBySection[
                                            CHOOSE m \in 1..Len(c.names) :
                                              c.names[m] = lname]
                                     ELSE 0
                          IN got >= c.perMin[lname]})>>

\* crossFindings (lines 424-453): recomputed from the working copies' markers
CrossFinding(r, secs) ==
  LET Counted(item) == item.matched /\ item.chosen # NULL
      Units(item) == item.chosen.units
      perListUnits(lname) ==
        sum([i \in 1..Len(secs) |->
               IF secs[i].name = lname
               THEN sum(SeqMap(Units, SeqFilter(Counted, secs[i].items)))
               ELSE 0])
      totalUnits ==
        sum([i \in 1..Len(secs) |->
               IF secs[i].name \in Range(r.applies_to)
               THEN sum(SeqMap(Units, SeqFilter(Counted, secs[i].items)))
               ELSE 0])
  IN [applies_to |-> r.applies_to,
      met_total |-> totalUnits >= r.min_units_total,
      total_units |-> totalUnits,
      need_total |-> r.min_units_total,
      per_list_min_status |->
        {[list |-> lname, have |-> perListUnits(lname),
          need |-> r.per_list_min_units[lname]] :
           lname \in {l \in DOMAIN r.per_list_min_units :
                        (IF l \in Range(r.applies_to) THEN perListUnits(l) ELSE 0)
                          < r.per_list_min_units[l]}}]

CrossFindings(d, secs) ==
  LET IsCross(r) == toUpperCase(r.type) = "CROSS_LIST_UNITS" IN
  [i \in 1..Len(SeqFilter(IsCross, d.cross_list_rules)) |->
     CrossFinding(SeqFilter(IsCross, d.cross_list_rules)[i], secs)]

\* percent with Math.floor in place of Math.round (mutation)
Percent_Floor(met, required, secs) ==
  IF required # 0 THEN (100 * met) \div required
  ELSE IF \E i \in 1..Len(secs) : Len(secs[i].items) > 0 THEN 0 ELSE 100

\* percent (lines 455-458)
Percent(met, required, secs) ==
  IF required # 0 THEN RoundDiv(100 * met, required)
  ELSE IF \E i \in 1..Len(secs) : Len(secs[i].items) > 0 THEN 0 ELSE 100

\* lines 412-458 and 585-606; pct is kept as the integer percent it is derived from
Score ==
  /\ pc = "units"
  /\ k > Len(sections)
  /\ LET atoms == CrossAtoms(cross)
         req == requiredAtomCount + atoms[1]
         met == metAtomCount + atoms[2]
     IN /\ requiredAtomCount' = req
        /\ metAtomCount' = met
        /\ result' = [pct |-> Percent(met, req, sections),
                      requiredItems |-> req,
                      satisfied |-> met,
                      cross_list_checks |-> CrossFindings(detail, sections),
                      hasCross |-> cross.present,
                      isComplete |-> cross.present /\ met = req]
  /\ pc' = "done"
  /\ UNCHANGED <<k, detail, takenSet, skipGESections, sections, usedSet, cross,
                 report, geVars, sideVars>>

NextProgram ==
  \/ Begin
  \/ CrossPerList
  \/ CrossLeftovers
  \/ CrossTopUp
  \/ CrossReturn
  \/ EvalAllish
  \/ EvalCount
  \/ EvalCountDone
  \/ EvalUnits
  \/ Score

SpecProgram == InitProgram /\ [][NextProgram]_vars

(***************************************************************************)
(* Properties of evaluateProgram                                           *)
(***************************************************************************)
CodesOf(entries) == [i \in 1..Len(entries) |-> entries[i].code]

IsUnitsSection(sec) == ruleTypeOf(sec.rule.type) = "UNITS"

\* the codes chosen so far by the ALL/LIST items, the COUNT picks and the UNITS
\* picks, section by section
ChosenCodes ==
  Flat([i \in 1..Len(sections) |->
          IF isAllish(detail, sections[i])
          THEN LET Matched(item) == item.matched
                   Code(item) == item.chosen.code
               IN SeqMap(Code, SeqFilter(Matched, sections[i].items))
          ELSE CodesOf(sections[i].chosen)])

\* C1: in one evaluateProgram call the codes chosen by ALL/LIST items, COUNT picks
\* (local and borrowed) and UNITS picks are pairwise distinct, and each of them is
\* in the taken set.
C1_NoCodeConsumedTwice ==
  /\ NoDuplicates(ChosenCodes)
  /\ Range(ChosenCodes) \subseteq takenSet

\* C1 witness: a finished call in which an ALL item, a COUNT section and a UNITS
\* section each consumed a course, and a taken option was passed over because an
\* earlier section had consumed it.
C1_Witness ==
  /\ pc = "done"
  /\ \E i \in 1..Len(sections) :
       isAllish(detail, sections[i]) /\ \E j \in 1..Len(sections[i].items) :
         sections[i].items[j].matched
  /\ \E i \in 1..Len(sections) : IsCountSection(detail, sections[i]) /\ sections[i].chosen # << >>
  /\ \E i \in 1..Len(sections) :
       /\ IsUnitsSection(sections[i])
       /\ Len(sections[i].chosen) >= 2
       /\ \E j \in 1..Len(sections[i].items) :
            LET item == sections[i].items[j] IN
            /\ item.matched
            /\ item.options[1].code \in takenSet
            /\ item.chosen # item.options[1]

\* the codes evalCrossListUnits chose, over all pooled sections
CrossChosenCodes == CodesOf(Flat(cross.chosenBySection))

\* C2: in CROSS_LIST_UNITS allocation no course is double-counted: a taken code is
\* chosen (its units added to totalUnits and earnedBySection) at most once per
\* evaluation, in the per-list pass and in the top-up pass together.
C2_NoDoubleCount == NoDuplicates(CrossChosenCodes)

\* C4: a COUNT section never selects more than max items (local and borrowed
\* together), and the satisfied atoms it reports never exceed min.
C4_CountWithinMax ==
  \A i \in 1..Len(sections) :
    IsCountSection(detail, sections[i]) =>
      LET need == OrElse(sections[i].rule.min, 1)
          max == OrElse(sections[i].rule.max, need)
      IN /\ Len(sections[i].chosen) <= max
         /\ Min(Len(sections[i].chosen), need) <= need

\* units of the first j entries of a chosen list
PrefixUnits(chosen, j) == sum([i \in 1..j |-> chosen[i].units])

ZeroDisciplines(sec) == IsUnitsSection(sec) /\ OrElse(sec.rule.min_disciplines, 0) = 0

\* no allow_from list has a positive per-list minimum
NoPerListMinimum(sec) ==
  \A a \in 1..Len(sec.rule.allow_from) :
    Get0(sec.rule.per_list_min_units, sec.rule.allow_from[a]) = 0

\* C5 as stated: with min_disciplines = 0 (any allow_from and per_list_min_units) no
\* course is added once the accumulated units have reached min_units, so gotUnits
\* exceeds min_units by less than the units of one chosen course.
C5_StopsAtMinUnits ==
  \A i \in 1..Len(sections) :
    ZeroDisciplines(sections[i]) =>
      LET chosen == sections[i].chosen
          minUnits == OrElse(sections[i].rule.min_units, 0)
      IN /\ \A j \in 1..Len(chosen) : PrefixUnits(chosen, j - 1) < minUnits
         /\ chosen # << >> =>
              \E j \in 1..Len(chosen) : sections[i].units - minUnits < chosen[j].units

\* C5 amended: with min_disciplines = 0, a course is added after min_units is
\* reached only by the per-list pass, from an allow_from list whose per-list minimum
\* is not yet met; when no allow_from list has a positive per-list minimum, no course
\* is added once min_units is reached and gotUnits exceeds min_units by less than
\* the units of the last chosen course.
C5_StopsAtMinUnitsUnlessPerList ==
  \A i \in 1..Len(sections) :
    ZeroDisciplines(sections[i]) =>
      LET chosen == sections[i].chosen
          rule == sections[i].rule
          minUnits == OrElse(rule.min_units, 0)
      IN /\ \A j \in 1..Len(chosen) :
              \/ PrefixUnits(chosen, j - 1) < minUnits
              \/ /\ chosen[j].from \in Range(rule.allow_from)
                 /\ UnitsFrom(SubSeq(chosen, 1, j - 1), chosen[j].from)
                      < Get0(rule.per_list_min_units, chosen[j].from)
         /\ sections[i].units = PrefixUnits(chosen, Len(chosen))
         /\ NoPerListMinimum(sections[i]) /\ chosen # << >> =>
              sections[i].units - minUnits < chosen[Len(chosen)].units

\* C5 witness: a UNITS section with min_disciplines = 0 and no per-list minimum
\* reached a positive min_units and stopped while one of its items still had a
\* taken, unconsumed option.
C5_Witness ==
  \E i \in 1..Len(sections) :
    /\ pc = "done"
    /\ ZeroDisciplines(sections[i])
    /\ NoPerListMinimum(sections[i])
    /\ OrElse(sections[i].rule.min_units, 0) > 0
    /\ sections[i].units >= OrElse(sections[i].rule.min_units, 0)
    /\ Len(sections[i].chosen) >= 1
    /\ \E j \in 1..Len(sections[i].items) :
         /\ ~sections[i].items[j].matched
         /\ findMatchForItem(sections[i].items[j], takenSet, usedSet) # NULL

\* an entry of chosenBySection pushed by the top-up loop: the leftover objects are
\* the copies that carry the pool name
IsTopUpEntry(h) == "name" \in DOMAIN h
IsPerListEntry(h) == ~IsTopUpEntry(h)

PerListCodes == Range(CodesOf(SeqFilter(IsPerListEntry, Flat(cross.chosenBySection))))
TopUpCodes == Range(CodesOf(SeqFilter(IsTopUpEntry, Flat(cross.chosenBySection))))

PerListEarned(n) ==
  LET Units(h) == h.units IN
  sum(SeqMap(Units, SeqFilter(IsPerListEntry, cross.chosenBySection[n])))

\* the per-list pass of pool n ran to its end: the pool's minimum was met by it, or
\* every hit of the pool was consumed during the per-list passes
PerListPassFinished(n) ==
  \/ PerListEarned(n) >= Get0(cross.perMin, cross.names[n])
  \/ \A j \in 1..Len(cross.hits[n]) : cross.hits[n][j].code \in PerListCodes

C6_Order ==
  /\ pc = "perlist" => TopUpCodes = {} /\ cross.leftovers = << >>
  /\ TopUpCodes # {} => \A n \in 1..Len(cross.names) : PerListPassFinished(n)
  /\ TopUpCodes \cap PerListCodes = {}

C6_TopUpStep ==
  Len(Flat(cross'.chosenBySection)) > Len(Flat(cross.chosenBySection)) /\ pc # "perlist"
    => /\ pc = "topup"
       /\ cross.totalUnits < cross.minTotal
       /\ \A n \in 1..Len(cross.names) : PerListPassFinished(n)

\* C6: the per-list pass runs for every pooled section before the top-up consumes
\* anything: a course consumed by the top-up was still unconsumed when the per-list
\* pass had finished for all pools, and the top-up consumes nothing once totalUnits
\* has reached min_units_total.
C6_PerListBeforeTopUp == []C6_Order /\ [][C6_TopUpStep]_vars

\* C6 witness: the per-list pass and the top-up each consumed a course, and the
\* top-up stopped at the total with a leftover still unconsumed.
C6_Witness ==
  /\ pc = "allish"
  /\ PerListCodes # {}
  /\ TopUpCodes # {}
  /\ cross.totalUnits >= cross.minTotal
  /\ \E j \in 1..Len(cross.leftovers) : cross.leftovers[j].code \notin cross.usedCodes

\* the sub-constraints of a UNITS section, on its chosen list
UnitsConstraintsMet(sec) ==
  /\ sec.units >= OrElse(sec.rule.min_units, 0)
  /\ Cardinality(DisciplinesOf(sec.chosen)) >= OrElse(sec.rule.min_disciplines, 0)
  /\ \A l \in DOMAIN sec.rule.per_list_min_units :
       UnitsFrom(sec.chosen, l) >= sec.rule.per_list_min_units[l]

C9_UnitsStep ==
  (/\ pc = "units"
   /\ k <= Len(sections)
   /\ IsUnitsSection(sections[k])
   /\ ~Skipped(skipGESections, sections[k].name))
  => /\ requiredAtomCount' = requiredAtomCount + 1
     /\ metAtomCount' > metAtomCount => UnitsConstraintsMet(sections'[k])
     /\ ~UnitsConstraintsMet(sections'[k]) =>
          metAtomCount' - metAtomCount < requiredAtomCount' - requiredAtomCount

\* C9: a UNITS section adds one required atom, counted as satisfied only when all
\* of its sub-constraints hold (min_units, min_disciplines, every per-list
\* minimum); with an unmet sub-constraint not all of its atoms are satisfied.
C9_UnitsOneAtom == [][C9_UnitsStep]_vars

CountWhere(Keep(_), s) == Len(SeqFilter(Keep, s))

\* C10: the missing list of a UNITS section has one entry per unmet constraint and
\* none for a met one: one iff fewer than min_disciplines disciplines were chosen,
\* one per list named in per_list_min_units whose chosen units are below its
\* minimum, one "more units overall" iff gotUnits < min_units, gotUnits being the
\* sum of the units of the chosen courses.
C10_MissingPerConstraint ==
  \A r \in 1..Len(report) :
    LET sec == sections[PoolIndex(sections, report[r].section)]
        missing == report[r].missing
        chosen == report[r].met
        IsDisc(m) == m.kind = "disciplines"
        IsOverall(m) == m.kind = "more units overall"
        IsList(m) == m.kind = "more units from"
    IN IsUnitsSection(sec) =>
         /\ sec.units = PrefixUnits(chosen, Len(chosen))
         /\ CountWhere(IsDisc, missing) =
              (IF Cardinality(DisciplinesOf(chosen)) < OrElse(sec.rule.min_disciplines, 0)
               THEN 1 ELSE 0)
         /\ CountWhere(IsOverall, missing) =
              (IF sec.units < OrElse(sec.rule.min_units, 0) THEN 1 ELSE 0)
         /\ \A l \in DOMAIN sec.rule.per_list_min_units :
              LET ForList(m) == IsList(m) /\ m.list = l IN
              CountWhere(ForList, missing) =
                (IF UnitsFrom(chosen, l) < sec.rule.per_list_min_units[l] THEN 1 ELSE 0)
         /\ \A m \in 1..Len(missing) :
              IsList(missing[m]) => missing[m].list \in DOMAIN sec.rule.per_list_min_units

(***************************************************************************)
(* GE evaluation: lookups and candidates                                   *)
(***************************************************************************)
\* JSON objects keyed by area label: absent keys read as an empty list
EmptyMap == [a \in {} |-> << >>]
Get(obj, key) == IF key \in DOMAIN obj THEN obj[key] ELSE << >>
Put(obj, key, value) ==
  [a \in DOMAIN obj \cup {key} |-> IF a = key THEN value ELSE obj[a]]

\* [...new Set(list)]: first occurrences, in order
RECURSIVE uniq(_)
uniq(a) ==
  IF a = << >> THEN << >>
  ELSE Bind(uniq(SubSeq(a, 1, Len(a) - 1)), LAMBDA front :
         IF a[Len(a)] \in Range(front) THEN front ELSE Append(front, a[Len(a)]))

\* examUnits: the units of the exam pseudo-courses, by code
IsExam(code) == \E e \in 1..Len(ge.examCourses) : ge.examCourses[e].code = code
examUnits(code) ==
  ge.examCourses[CHOOSE e \in 1..Len(ge.examCourses) : ge.examCourses[e].code = code].units

unitsFor(code) == IF IsExam(code) THEN examUnits(code) ELSE MinimumCredits(code)

\* examByArea[area]: the codes of the exam pseudo-courses mapped to the area
examByArea(area) ==
  LET InArea(ex) == area \in ex.geAreas
      Code(ex) == ex.code
  IN uniq(SeqMap(Code, SeqFilter(InArea, ge.examCourses)))

\* areaCandidates[area] || []
areaCandidates(area) ==
  IF area \notin DOMAIN ge.bucketMap THEN << >>
  ELSE LET Ok(c) == c \in okCourses IN
       uniq(SeqFilter(Ok, uniq(ge.bucketMap[area])) \o examByArea(area))

countAreasContaining(code) ==
  Cardinality({a \in DOMAIN ge.bucketMap : code \in Range(ge.bucketMap[a])})

multiUseCount(c) == countAreasContaining(c) - 1

\* scored.sort((a, b) => a.w - b.w || b.u - a.u): stable
ScoredBefore(a, b) == a.w < b.w \/ (a.w = b.w /\ a.u > b.u)

SortScored(s) == StableSort(ScoredBefore, s)

\* pool.sort((x, y) => y.u - x.u): stable, descending units
SortByUDesc(s) == StableSort(LAMBDA x, y : x.u > y.u, s)

(***************************************************************************)
(* evaluateGE.pickForArea                                                  *)
(***************************************************************************)
\* the discipline key of a candidate: `EXAM:${code}` for an exam, else prefixOf
PrefOf(c) == IF IsExam(c) THEN "EXAM:" \o c[1] ELSE prefixOf(c)

\* chosen.push(it.c); units += it.u; seenPrefixes.add(pref); p = [chosen, units, seen]
PushCandidate(p, it) ==
  [chosen |-> Append(p.chosen, it.c), units |-> p.units + it.u,
   seen |-> p.seen \cup {PrefOf(it.c)}]

\* the discipline-aware loop, from candidate i on
RECURSIVE FirstPass(_, _, _, _, _, _)
FirstPass(scored, i, p, needCourses, needUnits, needDistinct) ==
  IF i > Len(scored) THEN p
  ELSE IF needDistinct # 0 /\ PrefOf(scored[i].c) \in p.seen
       THEN FirstPass(scored, i + 1, p, needCourses, needUnits, needDistinct)
       ELSE Bind(PushCandidate(p, scored[i]), LAMBDA q :
              IF Len(q.chosen) >= needCourses /\ q.units >= needUnits THEN q
              ELSE FirstPass(scored, i + 1, q, needCourses, needUnits, needDistinct))

\* may the second loop take this candidate
SecondPassTakes(p, it, needDistinct) ==
  /\ it.c \notin Range(p.chosen)
  /\ ~(needDistinct # 0 /\ PrefOf(it.c) \in p.seen)

\* the loop that runs when units < needUnits, from candidate i on
RECURSIVE SecondPass(_, _, _, _, _)
SecondPass(scored, i, p, needUnits, needDistinct) ==
  IF i > Len(scored) THEN p
  ELSE IF ~SecondPassTakes(p, scored[i], needDistinct)
       THEN SecondPass(scored, i + 1, p, needUnits, needDistinct)
       ELSE Bind(PushCandidate(p, scored[i]), LAMBDA q :
              IF q.units >= needUnits THEN q
              ELSE SecondPass(scored, i + 1, q, needUnits, needDistinct))

\* c.startsWith('EXAM:Other:IGETC 6A')
IsLoteWaiver(c) == c[1] = "EXAM:Other:IGETC 6A"

pickForArea(areaObj, used) ==
  LET area == areaObj.area
      needCourses == areaObj.min_courses
      needUnits == areaObj.min_units
      needDistinct == areaObj.distinct_disciplines
      Unused(c) == c \notin used
      pool == SeqFilter(Unused, areaCandidates(area))
      scored == SortScored([i \in 1..Len(pool) |->
                              [c |-> pool[i], u |-> unitsFor(pool[i]),
                               w |-> multiUseCount(pool[i])]])
      Picked(sc) ==
        Bind(FirstPass(sc, 1, [chosen |-> << >>, units |-> 0, seen |-> {}],
                       needCourses, needUnits, needDistinct), LAMBDA p1 :
          IF p1.units < needUnits
          THEN SecondPass(sc, 1, p1, needUnits, needDistinct)
          ELSE p1)
  IN IF pool = << >> THEN [chosen |-> << >>, units |-> 0, satisfied |-> FALSE]
     ELSE Bind(scored, LAMBDA sc : Bind(Picked(sc), LAMBDA p2 :
       IF area = "6A" /\ \E i \in 1..Len(p2.chosen) : IsLoteWaiver(p2.chosen[i])
       THEN [chosen |-> p2.chosen, units |-> p2.units,
             satisfied |-> Len(p2.chosen) >= needCourses]
       ELSE [chosen |-> p2.chosen, units |-> p2.units,
             satisfied |-> Len(p2.chosen) >= needCourses /\ p2.units >= needUnits]))

(***************************************************************************)
(* evaluateGE.satisfyRequires                                              *)
(***************************************************************************)
\* the candidates of from_areas that carry the attribute and are unconsumed
RequirePool(requireObj, used) ==
  LET labSet == IF requireObj.attribute \in DOMAIN ge.attrMap
                THEN ge.attrMap[requireObj.attribute] ELSE {}
      Fits(c) == c \notin used /\ c \in labSet
      fromAreas == requireObj.from_areas
  IN SortByUDesc(
       Flat([x \in 1..Len(fromAreas) |->
               LET cs == SeqFilter(Fits, areaCandidates(fromAreas[x])) IN
               [j \in 1..Len(cs) |->
                  [a |-> fromAreas[x], c |-> cs[j], u |-> unitsFor(cs[j])]]]))

\* alloc[item.a] after the push guarded by alloc[item.a].length === 0
RecordUnderFromArea(list, c) ==
  IF Len(list) = 0 /\ c \notin Range(list) THEN Append(list, c) ELSE list

\* the loop over pool, from entry i on; st = [used, alloc, ...]
RECURSIVE RequireLoop(_, _, _, _, _, _)
RequireLoop(pool, i, st, picked, count, satArea) ==
  IF i > Len(pool) THEN [st |-> st, picked |-> picked]
  ELSE LET item == pool[i]
           a1 == Put(st.alloc, item.a, RecordUnderFromArea(Get(st.alloc, item.a), item.c))
           a2 == IF satArea # ""
                 THEN Put(a1, satArea,
                          IF item.c \in Range(Get(a1, satArea)) THEN Get(a1, satArea)
                          ELSE Append(Get(a1, satArea), item.c))
                 ELSE a1
           st2 == [st EXCEPT !.used = @ \cup {item.c}, !.alloc = a2]
       IN Bind(st2, LAMBDA st3 :
            IF picked + 1 >= count THEN [st |-> st3, picked |-> picked + 1]
            ELSE RequireLoop(pool, i + 1, st3, picked + 1, count, satArea))

\* each call is also recorded in st.requires: its pool, the number of pool
\* entries it consumed, its answer, and used and alloc as it left them
satisfyRequires(requireObj, st) ==
  LET count == IF requireObj.count = 0 THEN 1 ELSE requireObj.count
  IN Bind(RequirePool(requireObj, st.used), LAMBDA pool :
     Bind(RequireLoop(pool, 1, st, 0, count, requireObj.satisfies_area), LAMBDA r :
       [ok |-> r.picked >= count,
        st |-> [r.st EXCEPT !.requires =
                  Append(@, [require |-> requireObj, pool |-> pool,
                             picked |-> r.picked, ok |-> r.picked >= count,
                             after |-> [used |-> r.st.used, alloc |-> r.st.alloc]])]]))

(***************************************************************************)
(* evaluateGE.walk                                                         *)
(***************************************************************************)
HasOp(x) == x.op # ""
HasArea(x) == x.area # ""
HasAreaOrBucket(x) == x.area # "" \/ x.bucket # ""
HasRequire(x) == "attribute" \in DOMAIN x.require
AreaOrBucket(x) == IF x.area # "" THEN x.area ELSE x.bucket

\* for (const c of res.chosen) if (!used.has(c)) { alloc[area].push(c); used.add(c); }
RECURSIVE CommitChosen(_, _, _, _)
CommitChosen(st, area, chosen, i) ==
  IF i > Len(chosen) THEN st
  ELSE IF chosen[i] \in st.used THEN CommitChosen(st, area, chosen, i + 1)
       ELSE Bind([st EXCEPT !.used = @ \cup {chosen[i]},
                            !.alloc = Put(@, area, Append(Get(@, area), chosen[i]))],
                 LAMBDA st2 : CommitChosen(st2, area, chosen, i + 1))

\* the node.area and node.bucket branches; leaf carries the area label in .area
WalkLeaf(leaf, st) ==
  Bind(pickForArea(leaf, st.used), LAMBDA res :
    [ok |-> res.satisfied,
     st |-> IF Len(res.chosen) > 0
            THEN CommitChosen([st EXCEPT !.alloc = Put(@, leaf.area, Get(@, leaf.area))],
                              leaf.area, res.chosen, 1)
            ELSE st])

\* the units and the count of the courses alloc holds for the listed areas
HaveCourses(alloc, areas) == sum([i \in 1..Len(areas) |-> Len(Get(alloc, areas[i]))])
HaveUnits(alloc, areas) ==
  sum([i \in 1..Len(areas) |-> sum(SeqMap(unitsFor, Get(alloc, areas[i])))])

\* pools: the unconsumed candidates of the involved areas, highest units first
GroupPools(involvedAreas, used) ==
  LET Unused(c) == c \notin used IN
  SortByUDesc(
    Flat([x \in 1..Len(involvedAreas) |->
            LET cs == SeqFilter(Unused, areaCandidates(involvedAreas[x])) IN
            [j \in 1..Len(cs) |->
               [a |-> involvedAreas[x], c |-> cs[j], u |-> unitsFor(cs[j])]]]))

\* for (const p of pools): push, consume, stop once both group minima are met
RECURSIVE GroupFillLoop(_, _, _, _, _, _, _)
GroupFillLoop(pools, i, st, haveCourses, haveUnits, groupMinCourses, groupMinUnits) ==
  IF i > Len(pools)
  THEN [st |-> st, haveCourses |-> haveCourses, haveUnits |-> haveUnits]
  ELSE LET p == pools[i]
           hc == haveCourses + 1
           hu == haveUnits + p.u
       IN Bind([st EXCEPT !.alloc = Put(@, p.a, Append(Get(@, p.a), p.c)),
                          !.used = @ \cup {p.c}],
               LAMBDA st2 :
                 IF hc >= groupMinCourses /\ hu >= groupMinUnits
                 THEN [st |-> st2, haveCourses |-> hc, haveUnits |-> hu]
                 ELSE GroupFillLoop(pools, i + 1, st2, hc, hu, groupMinCourses,
                                    groupMinUnits))

\* the group-level minima of an AND node
GroupFill(node, st) ==
  LET groupMinCourses == node.min_total_courses
      groupMinUnits == node.min_units
      involvedAreas == SeqMap(AreaOrBucket, SeqFilter(HasAreaOrBucket, node.nodes))
      haveCourses == HaveCourses(st.alloc, involvedAreas)
      haveUnits == HaveUnits(st.alloc, involvedAreas)
      Filled ==
        IF haveCourses < groupMinCourses \/ haveUnits < groupMinUnits
        THEN Bind(GroupPools(involvedAreas, st.used), LAMBDA pools :
               GroupFillLoop(pools, 1, st, haveCourses, haveUnits, groupMinCourses,
                             groupMinUnits))
        ELSE [st |-> st, haveCourses |-> haveCourses, haveUnits |-> haveUnits]
  IN IF groupMinCourses # 0 \/ groupMinUnits # 0
     THEN Bind(Filled, LAMBDA r :
            [ok |-> r.haveCourses >= groupMinCourses /\ r.haveUnits >= groupMinUnits,
             st |-> r.st])
     ELSE [ok |-> TRUE, st |-> st]

\* for (const n of sub.filter(x => x.require)) out.push({ok: satisfyRequires(...)})
RECURSIVE RequireEach(_, _, _, _)
RequireEach(list, i, st, ok) ==
  IF i > Len(list) THEN [ok |-> ok, st |-> st]
  ELSE Bind(satisfyRequires(list[i].require, st), LAMBDA r :
         RequireEach(list, i + 1, r.st, ok /\ r.ok))

\* snapshot(): used copied element by element, alloc through JSON text and back
snapshot(st) ==
  [used |-> {v \in st.used : TRUE},
   alloc |-> [a \in DOMAIN st.alloc |->
                [i \in 1..Len(st.alloc[a]) |-> st.alloc[a][i]]]]

\* restore that puts back alloc and leaves used as the trial left it (mutation)
restore_AllocOnly(st, snap) == [st EXCEPT !.alloc = snap.alloc]

\* restore(snap): used and alloc only
restore(st, snap) == [st EXCEPT !.used = snap.used, !.alloc = snap.alloc]

deltaScore(before, after) ==
  LET areas == DOMAIN after \cup DOMAIN before
      New(a) == LET NotBefore(c) == c \notin Range(Get(before, a))
                IN SeqFilter(NotBefore, Get(after, a))
      RECURSIVE Over(_)
      Over(S) == IF S = {} THEN [units |-> 0, courses |-> 0]
                 ELSE LET a == CHOOSE x \in S : TRUE
                          rest == Over(S \ {a})
                      IN [units |-> rest.units + sum(SeqMap(unitsFor, New(a))),
                          courses |-> rest.courses + Len(New(a))]
  IN Over(areas)

\* the comparison that decides whether choice b replaces the best so far a
better_ScoreOnly(a, b) ==
  \/ b.score.units > a.score.units
  \/ (b.score.units = a.score.units /\ b.score.courses > a.score.courses)

better(a, b) ==
  \/ (b.ok /\ ~a.ok)
  \/ /\ b.ok = a.ok
     /\ \/ b.score.units > a.score.units
        \/ (b.score.units = a.score.units /\ b.score.courses > a.score.courses)

NoBest == [idx |-> 0, ok |-> FALSE, score |-> [units |-> 0, courses |-> 0]]

\* kids.map(c => c.area || c.bucket).filter(Boolean)
kidAreasOf(node) == SeqMap(AreaOrBucket, SeqFilter(HasAreaOrBucket, node.nodes))

RECURSIVE JoinSlash(_)
JoinSlash(names) ==
  IF Len(names) = 0 THEN ""
  ELSE IF Len(names) = 1 THEN names[1]
       ELSE names[1] \o "/" \o JoinSlash(Tail(names))

\* display_as.trim() || group || kidAreas.join('/') || 'OR'
groupLabelOf(node) ==
  IF node.display_as # "" THEN node.display_as
  ELSE IF node.group # "" THEN node.group
       ELSE IF Len(kidAreasOf(node)) > 0 THEN JoinSlash(kidAreasOf(node)) ELSE "OR"

\* kidAreas.find(a => (alloc[a] || []).length > 0) || kidAreas[0]
chosenAreaOf(kidAreas, alloc) ==
  IF \E i \in 1..Len(kidAreas) : Len(Get(alloc, kidAreas[i])) > 0
  THEN kidAreas[CHOOSE i \in 1..Len(kidAreas) :
                  /\ Len(Get(alloc, kidAreas[i])) > 0
                  /\ \A j \in 1..(i - 1) : Len(Get(alloc, kidAreas[j])) = 0]
  ELSE IF Len(kidAreas) > 0 THEN kidAreas[1] ELSE ""

RECURSIVE walk(_, _)
RECURSIVE WalkEach(_, _, _, _)
RECURSIVE OrTrials(_, _, _, _, _)

\* out.push(walk(n)) for each node of the list, in order
WalkEach(list, i, st, ok) ==
  IF i > Len(list) THEN [ok |-> ok, st |-> st]
  ELSE Bind(walk(list[i], st), LAMBDA r : WalkEach(list, i + 1, r.st, ok /\ r.ok))

\* the trial loop over kids: walk from the snapshot, score, compare, restore;
\* each choice also records used and alloc as the restore left them (restored)
OrTrials(kids, i, st, best, choices) ==
  IF i > Len(kids) THEN [st |-> st, best |-> best, choices |-> choices]
  ELSE Bind(snapshot(st), LAMBDA snap :
       Bind(walk(kids[i], st), LAMBDA res :
       Bind(restore(res.st, snap), LAMBDA restored :
       Bind([idx |-> i, ok |-> res.ok, score |-> deltaScore(snap.alloc, res.st.alloc),
             snap |-> snap, restored |-> snapshot(restored)],
            LAMBDA choice :
       Bind(IF best.idx = 0 THEN choice
            ELSE IF better(best, choice) THEN choice ELSE best, LAMBDA best2 :
         OrTrials(kids, i + 1, restored, best2, Append(choices, choice)))))))

walk(node, st) ==
  IF node.area # "" THEN WalkLeaf(node, st)
  ELSE IF node.bucket # "" THEN WalkLeaf([node EXCEPT !.area = node.bucket], st)
  ELSE IF node.op = "AND" THEN
    LET sub == node.nodes IN
    Bind(WalkEach(SeqFilter(HasOp, sub), 1, st, TRUE), LAMBDA r1 :
    Bind(WalkEach(SeqFilter(HasArea, sub), 1, r1.st, r1.ok), LAMBDA r2 :
    Bind(RequireEach(SeqFilter(HasRequire, sub), 1, r2.st, r2.ok), LAMBDA r3 :
    Bind(GroupFill(node, r3.st), LAMBDA r4 :
      [ok |-> r3.ok /\ r4.ok, st |-> r4.st]))))
  ELSE IF node.op = "OR" THEN
    LET kids == node.nodes
        kidAreas == kidAreasOf(node)
        groupLabel == groupLabelOf(node)
    IN Bind(OrTrials(kids, 1, st, NoBest, << >>), LAMBDA t :
         IF t.best.idx = 0 THEN [ok |-> FALSE, st |-> st]
         ELSE Bind(walk(kids[t.best.idx], t.st), LAMBDA w :
              Bind(chosenAreaOf(kidAreas, w.st.alloc), LAMBDA chosenArea :
              Bind(Put(w.st.alloc, groupLabel, Get(w.st.alloc, chosenArea)),
                   LAMBDA alloc2 :
                [ok |-> TRUE,
                 st |-> [w.st EXCEPT
                           !.orGroups = Put(@, groupLabel, kidAreas),
                           !.orChoice = Put(@, groupLabel, chosenArea),
                           !.alloc = alloc2,
                           !.trials = Append(@, [label |-> groupLabel,
                                                 node |-> node,
                                                 before |-> snapshot(st),
                                                 choices |-> t.choices,
                                                 best |-> t.best.idx,
                                                 committed |-> w.ok,
                                                 after |-> [used |-> w.st.used,
                                                            alloc |-> alloc2]])]]))))
  ELSE [ok |-> TRUE, st |-> st]

(***************************************************************************)
(* evaluateGE: the per-area summary and the percent                        *)
(***************************************************************************)
NoSpec == [min_courses |-> 0, min_units |-> 0, distinct_disciplines |-> 0, found |-> FALSE]

RECURSIVE findAreaSpec(_, _)
RECURSIVE FirstSpecIn(_, _, _)

\* the first hit among kids i.., depth first
FirstSpecIn(kids, i, area) ==
  IF i > Len(kids) THEN NoSpec
  ELSE LET hit == findAreaSpec(kids[i], area) IN
       IF hit.found THEN hit ELSE FirstSpecIn(kids, i + 1, area)

findAreaSpec(node, area) ==
  IF node.area = area \/ node.bucket = area
  THEN [min_courses |-> node.min_courses, min_units |-> node.min_units,
        distinct_disciplines |-> node.distinct_disciplines, found |-> TRUE]
  ELSE FirstSpecIn(node.nodes, 1, area)

\* the pushes of listAreaLeaves, in order, before uniq
RECURSIVE LeafPushes(_)
LeafPushes(node) ==
  IF node.area # "" THEN <<node.area>>
  ELSE IF node.bucket # "" THEN <<node.bucket>>
  ELSE IF node.op = "OR" THEN <<groupLabelOf(node)>>
  ELSE Flat([i \in 1..Len(node.nodes) |-> LeafPushes(node.nodes[i])])

listAreaLeaves(node) ==
  IF node.area # "" \/ node.bucket # "" \/ node.op = "OR" THEN LeafPushes(node)
  ELSE uniq(LeafPushes(node))

minOrZero(arr) ==
  IF Len(arr) = 0 THEN 0
  ELSE CHOOSE m \in Range(arr) : \A x \in Range(arr) : m <= x

\* perArea[area] for a bucket of bucketMap
BucketSummary(area, alloc) ==
  LET spec == findAreaSpec(ge.logic, area)
      chosen == Get(alloc, area)
      waived == /\ ge.pattern = "igetc"
                /\ area = "6A"
                /\ \E i \in 1..Len(chosen) : IsLoteWaiver(chosen[i])
  IN [have |-> Len(chosen), units |-> sum(SeqMap(unitsFor, chosen)),
      needCourses |-> spec.min_courses,
      needUnits |-> IF waived THEN 0 ELSE spec.min_units,
      distinct |-> spec.distinct_disciplines]

\* perArea[label] for an entry of orGroups
OrGroupSummary(label, st) ==
  LET children == st.orGroups[label]
      chosenList == Get(st.alloc, label)
      childSpecs == [i \in 1..Len(children) |-> findAreaSpec(ge.logic, children[i])]
  IN [have |-> Len(chosenList), units |-> sum(SeqMap(unitsFor, chosenList)),
      needCourses |-> minOrZero([i \in 1..Len(children) |-> childSpecs[i].min_courses]),
      needUnits |-> minOrZero([i \in 1..Len(children) |-> childSpecs[i].min_units]),
      distinct |-> 0]

\* perArea[area] for an alloc key that is neither a bucket nor an OR label
OtherSummary(area, alloc) ==
  [have |-> Len(alloc[area]), units |-> sum(SeqMap(unitsFor, alloc[area])),
   needCourses |-> 1, needUnits |-> 0, distinct |-> 0]

perAreaOf(st) ==
  [a \in DOMAIN ge.bucketMap \cup DOMAIN st.orGroups \cup DOMAIN st.alloc |->
     IF a \in DOMAIN st.orGroups THEN OrGroupSummary(a, st)
     ELSE IF a \in DOMAIN ge.bucketMap THEN BucketSummary(a, st.alloc)
     ELSE OtherSummary(a, st.alloc)]

LeafDone(perArea, a) ==
  /\ a \in DOMAIN perArea
  /\ perArea[a].have >= perArea[a].needCourses
  /\ perArea[a].units >= perArea[a].needUnits

\* the percent with Math.floor in place of Math.round (mutation)
pctOf_Floor(perArea) ==
  LET reqLeaves == listAreaLeaves(ge.logic)
      Done(a) == LeafDone(perArea, a)
  IN IF Len(reqLeaves) # 0
     THEN (100 * Len(SeqFilter(Done, reqLeaves))) \div Len(reqLeaves) ELSE 0

pctOf(perArea) ==
  LET reqLeaves == listAreaLeaves(ge.logic)
      Done(a) == LeafDone(perArea, a)
      doneLeaves == SeqFilter(Done, reqLeaves)
  IN IF Len(reqLeaves) # 0 THEN RoundDiv(100 * Len(doneLeaves), Len(reqLeaves)) ELSE 0

(***************************************************************************)
(* GE patterns and transcripts the evaluation is run on                    *)
(***************************************************************************)
MaxAreaCourses == 2
MaxAreaUnits == 6
MaxGroupCourses == 4
MaxGroupUnits == 12
MaxRequireCount == 2

GECodes == {BIOL1, BIO2, CHEM1, MATH1, MATH2}

LoteExam == [code |-> <<"EXAM:Other:IGETC 6A", 0>>, units |-> 0, geAreas |-> {"6A"}]

Node ==
  [area |-> "", bucket |-> "", op |-> "", nodes |-> << >>, require |-> << >>,
   min_courses |-> 0, min_units |-> 0, distinct_disciplines |-> 0,
   min_total_courses |-> 0, display_as |-> "", group |-> ""]

AreaNode(a, mc, mu, dd) ==
  [Node EXCEPT !.area = a, !.min_courses = mc, !.min_units = mu,
               !.distinct_disciplines = dd]
BucketNode(b, mc, mu) == [Node EXCEPT !.bucket = b, !.min_courses = mc, !.min_units = mu]
AndNode(kids, mtc, mu) ==
  [Node EXCEPT !.op = "AND", !.nodes = kids, !.min_total_courses = mtc, !.min_units = mu]
OrNode(kids, display, grp) ==
  [Node EXCEPT !.op = "OR", !.nodes = kids, !.display_as = display, !.group = grp]
RequireNode(attr, cnt, from, sat) ==
  [Node EXCEPT !.require = [attribute |-> attr, count |-> cnt, from_areas |-> from,
                            satisfies_area |-> sat]]

\* areas A and B share MATH 1; C is a bucket child; a lab Require over A and B
AndPattern(mtc, mu, rc) ==
  [pattern |-> "butte_local",
   bucketMap |-> [a \in {"A", "B", "C"} |->
                    CASE a = "A" -> <<BIOL1, MATH1>>
                      [] a = "B" -> <<MATH1, CHEM1>>
                      [] a = "C" -> <<BIO2, MATH2>>],
   attrMap |-> [a \in {"lab"} |-> {BIOL1, CHEM1, MATH1}],
   examCourses |-> << >>,
   logic |-> AndNode(<<AreaNode("A", 1, 0, 0), AreaNode("B", 1, 0, 0),
                       BucketNode("C", 1, 0)>>
                     \o (IF rc > 0
                         THEN <<RequireNode("lab", rc, <<"A", "B">>, "B3")>>
                         ELSE << >>),
                     mtc, mu)]

\* an OR of two areas beside a plain area
OrPattern(m1, u1, flip, display) ==
  LET kB1 == AreaNode("B1", m1, u1, 0)
      kB2 == AreaNode("B2", 1, 0, 0)
  IN [pattern |-> "csu_breadth",
      bucketMap |-> [a \in {"A", "B1", "B2"} |->
                       CASE a = "A" -> <<BIO2>>
                         [] a = "B1" -> <<CHEM1, BIOL1>>
                         [] a = "B2" -> <<MATH1, MATH2>>],
      attrMap |-> [a \in {} |-> {}],
      examCourses |-> << >>,
      logic |-> AndNode(<<OrNode(IF flip THEN <<kB2, kB1>> ELSE <<kB1, kB2>>,
                                 display, ""),
                          AreaNode("A", 1, 0, 0)>>, 0, 0)]

\* an OR whose first child holds an inner OR group
NestedPattern(mG, flip) ==
  LET inner == AndNode(<<OrNode(<<AreaNode("D", 1, 0, 0), AreaNode("E", 1, 0, 0)>>,
                                "", "Inner"),
                         AreaNode("F", 1, 0, 0)>>, 0, 0)
      g == AreaNode("G", mG, 0, 0)
  IN [pattern |-> "cal_getc",
      bucketMap |-> [a \in {"D", "E", "F", "G"} |->
                       CASE a = "D" -> <<BIOL1>>
                         [] a = "E" -> <<CHEM1>>
                         [] a = "F" -> <<MATH1>>
                         [] a = "G" -> <<MATH2, BIO2>>],
      attrMap |-> [a \in {} |-> {}],
      examCourses |-> << >>,
      logic |-> OrNode(IF flip THEN <<g, inner>> ELSE <<inner, g>>, "", "")]

\* two OR groups in one AND: the second is entered with courses already used
TwoOrPattern(flip) ==
  LET p == AreaNode("P", 1, 0, 0)
      q == AreaNode("Q", 1, 0, 0)
      r == AreaNode("R", 1, 0, 0)
      t == AreaNode("T", 1, MaxAreaUnits, 0)
  IN [pattern |-> "cal_getc",
      bucketMap |-> [a \in {"P", "Q", "R", "T"} |->
                       CASE a = "P" -> <<BIOL1>>
                         [] a = "Q" -> <<CHEM1, MATH1>>
                         [] a = "R" -> <<BIOL1, CHEM1, BIO2>>
                         [] a = "T" -> <<MATH2, MATH1>>],
      attrMap |-> [a \in {} |-> {}],
      examCourses |-> << >>,
      logic |-> AndNode(<<OrNode(<<p, q>>, "", ""),
                          OrNode(IF flip THEN <<t, r>> ELSE <<r, t>>, "", "")>>, 0, 0)]

\* one area asking for courses of different disciplines
DistinctPattern(dd, mu) ==
  [pattern |-> "butte_local",
   bucketMap |-> [a \in {"D"} |-> <<MATH1, MATH2, CHEM1>>],
   attrMap |-> [a \in {} |-> {}],
   examCourses |-> << >>,
   logic |-> AreaNode("D", 2, mu, dd)]

\* IGETC with the language requirement 6A and a declared exam
IgetcPattern(exams) ==
  [pattern |-> "igetc",
   bucketMap |-> [a \in {"1A", "2", "6A"} |->
                    CASE a = "1A" -> <<BIOL1>>
                      [] a = "2" -> <<MATH1>>
                      [] a = "6A" -> <<MATH2>>],
   attrMap |-> [a \in {} |-> {}],
   examCourses |-> exams,
   logic |-> AndNode(<<AreaNode("6A", 1, 3, 0), AreaNode("1A", 1, 0, 0),
                       AreaNode("2", 1, 0, 0)>>, 0, 0)]

GEPatterns ==
  {AndPattern(mtc, mu, rc) : mtc \in 0..MaxGroupCourses, mu \in {0, MaxGroupUnits},
                             rc \in 0..MaxRequireCount}
  \cup {OrPattern(m1, u1, flip, display) : m1 \in 1..MaxAreaCourses,
                                           u1 \in {0, MaxAreaUnits}, flip \in BOOLEAN,
                                           display \in {"", "Science"}}
  \cup {NestedPattern(mG, flip) : mG \in 1..MaxAreaCourses, flip \in BOOLEAN}
  \cup {TwoOrPattern(flip) : flip \in BOOLEAN}
  \cup {DistinctPattern(dd, mu) : dd \in {0, MaxDisciplines}, mu \in {0, MaxAreaUnits}}
  \cup {IgetcPattern(exams) : exams \in {<< >>, <<LoteExam>>}}

(***************************************************************************)
(* evaluateGE as steps                                                     *)
(***************************************************************************)
NoGEResult == [alloc |-> EmptyMap, perArea |-> EmptyMap, percent |-> 0,
               displayGroups |-> EmptyMap]

NewGEState == [used |-> {}, alloc |-> EmptyMap, orGroups |-> EmptyMap,
               orChoice |-> EmptyMap, trials |-> << >>, requires |-> << >>,
               ok |-> FALSE]

ProgramIdle ==
  /\ detail = << >>
  /\ takenSet = {}
  /\ skipGESections = FALSE
  /\ k = 1
  /\ sections = << >>
  /\ usedSet = {}
  /\ cross = NoCross
  /\ report = << >>
  /\ requiredAtomCount = 0
  /\ metAtomCount = 0
  /\ result = NoResult

\* lines 1666-1707 and 1795-1796: lookups, okCourses, empty alloc and used
InitGE ==
  /\ ge \in GEPatterns
  /\ \E realCourses \in SUBSET GECodes :
       okCourses = realCourses \cup {ge.examCourses[e].code : e \in 1..Len(ge.examCourses)}
  /\ geState = NewGEState
  /\ geResult = NoGEResult
  /\ pc = "ge_start"
  /\ ProgramIdle
  /\ PrereqIdle
  /\ earlier = << >>

\* line 1922: walk(ge.logic)
GEWalk ==
  /\ pc = "ge_start"
  /\ LET r == walk(ge.logic, geState) IN geState' = [r.st EXCEPT !.ok = r.ok]
  /\ pc' = "ge_walked"
  /\ UNCHANGED <<ge, okCourses, geResult, k, progVars, sideVars>>

\* lines 1924-1966: perArea for buckets, OR groups and the other alloc keys
GEPerArea ==
  /\ pc = "ge_walked"
  /\ geResult' = [geResult EXCEPT !.perArea = perAreaOf(geState)]
  /\ pc' = "ge_summed"
  /\ UNCHANGED <<ge, okCourses, geState, k, progVars, sideVars>>

\* lines 1968-1975: the percent and the returned object
GEReturn ==
  /\ pc = "ge_summed"
  /\ geResult' = [geResult EXCEPT !.alloc = geState.alloc,
                                  !.percent = pctOf(geResult.perArea),
                                  !.displayGroups = geState.orGroups]
  /\ pc' = "ge_done"
  /\ UNCHANGED <<ge, okCourses, geState, k, progVars, sideVars>>

NextGE ==
  \/ GEWalk
  \/ GEPerArea
  \/ GEReturn

SpecGE == InitGE /\ [][NextGE]_vars

(***************************************************************************)
(* Properties of evaluateGE                                                *)
(***************************************************************************)
\* the labels of the area and bucket nodes of a logic tree
RECURSIVE AreaLeavesOf(_)
AreaLeavesOf(node) ==
  (IF HasAreaOrBucket(node) THEN {AreaOrBucket(node)} ELSE {})
  \cup UNION {AreaLeavesOf(node.nodes[i]) : i \in 1..Len(node.nodes)}

GEWalked == pc \in {"ge_walked", "ge_summed", "ge_done"}

\* C3: after evaluateGE no course code is in the alloc lists of two different
\* area leaves (OR-group labels and satisfies_area entries are not area leaves)
\* and no code is twice in the list of one area leaf, group-level fill included.
C3_OneAreaPerCode ==
  GEWalked =>
    LET leaves == AreaLeavesOf(ge.logic) IN
    /\ \A a \in leaves : NoDuplicates(Get(geState.alloc, a))
    /\ \A a, b \in leaves :
         a # b => Range(Get(geState.alloc, a)) \cap Range(Get(geState.alloc, b)) = {}

\* is choice x scored above choice y
ScoredAbove(x, y) ==
  \/ x.score.units > y.score.units
  \/ (x.score.units = y.score.units /\ x.score.courses > y.score.courses)

\* C7: for every OR node evaluated, if some child was satisfied when tried from
\* the state before the OR, the child kept as best was satisfied in its trial and
\* is satisfied when it is walked again to be committed.
C7_SatisfiedChildCommitted ==
  GEWalked =>
    \A n \in 1..Len(geState.trials) :
      LET t == geState.trials[n] IN
      (\E i \in 1..Len(t.choices) : t.choices[i].ok)
        => (t.choices[t.best].ok /\ t.committed)

\* an OR node whose committed child was satisfied although an unsatisfied sibling
\* scored strictly higher
C7_Witness ==
  /\ pc = "ge_done"
  /\ \E n \in 1..Len(geState.trials) :
       LET t == geState.trials[n] IN
       /\ t.choices[t.best].ok
       /\ t.committed
       /\ \E j \in 1..Len(t.choices) :
            ~t.choices[j].ok /\ ScoredAbove(t.choices[j], t.choices[t.best])

(***************************************************************************)
(* Properties of the atom scoring                                          *)
(***************************************************************************)
\* the units the cross-list allocation earned for a list, 0 for a list it did not pool
EarnedOf(c, lname) ==
  IF \E n \in 1..Len(c.names) : c.names[n] = lname
  THEN c.earnedBySection[CHOOSE n \in 1..Len(c.names) : c.names[n] = lname]
  ELSE 0

TotalAtomMet(c) == c.totalUnits >= c.minTotal
PerListAtomMet(c, lname) == EarnedOf(c, lname) >= c.perMin[lname]

\* C11: the step that scores a CROSS_LIST_UNITS rule adds one required atom for
\* the total and one per entry of per_list_min_units, adds one met atom for each
\* of them that is satisfied on its own, and done is true iff all of them are.
C11_CrossStep ==
  (pc = "units" /\ pc' = "done" /\ cross.present) =>
    /\ requiredAtomCount' = requiredAtomCount + 1 + Cardinality(DOMAIN cross.perMin)
    /\ metAtomCount' = metAtomCount + (IF TotalAtomMet(cross) THEN 1 ELSE 0)
         + Cardinality({l \in DOMAIN cross.perMin : PerListAtomMet(cross, l)})
    /\ cross.done <=> (/\ TotalAtomMet(cross)
                       /\ \A l \in DOMAIN cross.perMin : PerListAtomMet(cross, l))

C11_CrossAtoms == [][C11_CrossStep]_vars

\* is section si, by its catalog definition, an ALL section or a LIST section that
\* no cross-list rule pools
CatalogAllOrList(si) ==
  LET t == ruleTypeOf(detail.sections[si].rule.type) IN
  t = "ALL" \/ (t = "LIST" /\ ~sectionIsInCrossList(detail, detail.sections[si].name))

\* is section si evaluated item by item: ALL or unpooled LIST once "Select N" LIST
\* sections are turned into COUNT sections, and not a GE section that is skipped
EvaluatedAllish(si) ==
  /\ isAllish(detail, sections[si])
  /\ ~Skipped(skipGESections, sections[si].name)

Earlier(sj, ij, si, ii) == sj < si \/ (sj = si /\ ij < ii)

\* the ALL/LIST step treats every item of the sections in scope as claimed: the
\* item is matched iff one of its options is taken and not consumed when its turn
\* comes, the first such option is the one chosen, and the step adds one required
\* atom per item and one met atom per matched item
ItemsAreAtoms(InScope(_)) ==
  LET scope == {si \in 1..Len(sections) : InScope(si)}
      ConsumedBefore(si, ii) ==
        usedSet \cup {sections'[sj].items[ij].chosen.code :
                        <<sj, ij>> \in {<<a, b>> \in scope \X (1..3) :
                                          /\ b <= Len(sections[a].items)
                                          /\ Earlier(a, b, si, ii)
                                          /\ sections'[a].items[b].matched}}
      Free(si, ii, o) ==
        /\ sections[si].items[ii].options[o].code \in takenSet
        /\ sections[si].items[ii].options[o].code \notin ConsumedBefore(si, ii)
  IN /\ \A si \in scope : \A ii \in 1..Len(sections[si].items) :
          LET n == Len(sections[si].items[ii].options)
              after == sections'[si].items[ii]
          IN /\ after.matched <=> \E o \in 1..n : Free(si, ii, o)
             /\ after.matched =>
                  \E o \in 1..n : /\ Free(si, ii, o)
                                  /\ \A q \in 1..(o - 1) : ~Free(si, ii, q)
                                  /\ after.chosen = sections[si].items[ii].options[o]
     /\ requiredAtomCount' =
          requiredAtomCount + sum([si \in 1..Len(sections) |->
                                     IF si \in scope THEN Len(sections[si].items) ELSE 0])
     /\ metAtomCount' =
          metAtomCount + Cardinality({<<a, b>> \in scope \X (1..3) :
                                        /\ b <= Len(sections[a].items)
                                        /\ sections'[a].items[b].matched})

\* the result of a program whose sections are all in scope: required = items,
\* satisfied = matched items, percent = round(100 * satisfied / required)
ResultCountsItems(InScope(_)) ==
  (\A si \in 1..Len(sections) : InScope(si)) =>
    LET items == sum([si \in 1..Len(sections) |-> Len(sections[si].items)])
        matched == Cardinality({<<a, b>> \in (1..Len(sections)) \X (1..3) :
                                  /\ b <= Len(sections[a].items)
                                  /\ sections[a].items[b].matched})
    IN /\ result'.requiredItems = items
       /\ result'.satisfied = matched
       /\ items > 0 => result'.pct = RoundDiv(100 * matched, items)

\* C12 as stated: every item of an ALL section, or of a LIST section that no
\* cross-list rule pools, is one required atom and is one met atom iff an option
\* of it is taken and unconsumed at its turn (the first such option is consumed);
\* a program of such sections only gets required = items, satisfied = matched
\* items, percent = round(100 * satisfied / required).
C12_ItemStep ==
  /\ (pc = "allish" /\ pc' = "count") => ItemsAreAtoms(CatalogAllOrList)
  /\ (pc = "units" /\ pc' = "done") => ResultCountsItems(CatalogAllOrList)

C12_EveryItemOneAtom == [][C12_ItemStep]_vars

\* C12 amended: the same, for the sections that are evaluated item by item (a LIST
\* section named "Select N" is a COUNT section, a GE section is left out when
\* skipGESections is set).
C12_EvaluatedItemStep ==
  /\ (pc = "allish" /\ pc' = "count") => ItemsAreAtoms(EvaluatedAllish)
  /\ (pc = "units" /\ pc' = "done") => ResultCountsItems(EvaluatedAllish)

C12_EvaluatedItemOneAtom == [][C12_EvaluatedItemStep]_vars

\* a finished call on a program of ALL and unpooled LIST sections only, none
\* skipped, in which an item was matched by its second option because its first
\* was consumed, another item found its only option consumed, and the percent is
\* a rounded one
C12_Witness ==
  /\ pc = "done"
  /\ \A si \in 1..Len(sections) : EvaluatedAllish(si)
  /\ \E si \in 1..Len(sections) : \E ii \in 1..Len(sections[si].items) :
       LET item == sections[si].items[ii] IN
       /\ item.matched
       /\ Len(item.options) >= 2
       /\ item.options[1].code \in takenSet
       /\ item.chosen = item.options[2]
  /\ \E si \in 1..Len(sections) : \E ii \in 1..Len(sections[si].items) :
       LET item == sections[si].items[ii] IN
       ~item.matched /\ item.options[1].code \in takenSet
  /\ (100 * result.satisfied) % result.requiredItems # 0
  /\ result.pct = RoundDiv(100 * result.satisfied, result.requiredItems)

(***************************************************************************)
(* Properties of COUNT borrowing                                           *)
(***************************************************************************)
\* the position of a list in allow_from, 0 for the section's own name
AllowPos(allow, from) ==
  IF \E x \in 1..Len(allow) : allow[x] = from
  THEN CHOOSE x \in 1..Len(allow) : allow[x] = from /\ \A y \in 1..(x - 1) : allow[y] # from
  ELSE 0

\* does item hold an option that is taken and not in used
HasFreeOption(item, used) ==
  \E o \in 1..Len(item.options) :
    item.options[o].code \in takenSet /\ item.options[o].code \notin used

\* C13: in the step that evaluates a COUNT section, an item is borrowed only while
\* fewer than min are chosen, borrowed entries follow the order of allow_from, and
\* if the section ends short of min no allow_from pool is left with an unmatched
\* item that has a taken, unconsumed option.
C13_BorrowStep ==
  (/\ pc = "count" /\ k <= Len(sections)
   /\ IsCountSection(detail, sections[k])
   /\ ~Skipped(skipGESections, sections[k].name)) =>
    LET sec == sections'[k]
        need == OrElse(sec.rule.min, 1)
        allow == sec.rule.allow_from
        chosen == sec.chosen
        Borrowed(j) == chosen[j].from # sec.name
    IN /\ \A j \in 1..Len(chosen) : Borrowed(j) => j <= need
       /\ \A i, j \in 1..Len(chosen) :
            i < j => AllowPos(allow, chosen[i].from) <= AllowPos(allow, chosen[j].from)
       /\ Len(chosen) < need =>
            \A x \in 1..Len(allow) : \A si \in 1..Len(sections) :
              sections'[si].name = allow[x] =>
                \A ii \in 1..Len(sections'[si].items) :
                  ~sections'[si].items[ii].matched
                    => ~HasFreeOption(sections'[si].items[ii], usedSet')

C13_BorrowUntilMin == [][C13_BorrowStep]_vars

\* a COUNT section that found nothing locally, took one item from the first pool
\* of allow_from, which then had no more to give, and reached min with an item of
\* the second pool
C13_Witness ==
  \E i \in 1..Len(sections) :
    LET sec == sections[i] IN
    /\ IsCountSection(detail, sec)
    /\ Len(sec.rule.allow_from) = 2
    /\ OrElse(sec.rule.min, 1) = 2
    /\ Len(sec.chosen) = 2
    /\ sec.chosen[1].from = sec.rule.allow_from[1]
    /\ sec.chosen[2].from = sec.rule.allow_from[2]

(***************************************************************************)
(* Properties of the GE percent                                            *)
(***************************************************************************)
\* the leaf requirements of a logic tree: the labels of its area and bucket
\* leaves and of its OR groups; what lies inside an OR group is not a leaf
RECURSIVE LeafRequirements(_)
LeafRequirements(node) ==
  IF HasAreaOrBucket(node) THEN {AreaOrBucket(node)}
  ELSE IF node.op = "OR" THEN {groupLabelOf(node)}
  ELSE UNION {LeafRequirements(node.nodes[i]) : i \in 1..Len(node.nodes)}

AllocUnits(a) == sum(SeqMap(unitsFor, Get(geState.alloc, a)))

\* the course and unit minimum of a leaf: those of the area node, and for an OR
\* group the smallest min_courses and the smallest min_units among its child areas
LeafMinimum(a) ==
  IF a \in DOMAIN geState.orGroups
  THEN LET kids == geState.orGroups[a] IN
       [courses |-> minOrZero([i \in 1..Len(kids) |->
                                 findAreaSpec(ge.logic, kids[i]).min_courses]),
        units |-> minOrZero([i \in 1..Len(kids) |->
                               findAreaSpec(ge.logic, kids[i]).min_units])]
  ELSE [courses |-> findAreaSpec(ge.logic, a).min_courses,
        units |-> findAreaSpec(ge.logic, a).min_units]

\* the allocation of leaf a meets both minima
MeetsMinimum(a) ==
  /\ Len(Get(geState.alloc, a)) >= LeafMinimum(a).courses
  /\ AllocUnits(a) >= LeafMinimum(a).units

\* area 6A of an IGETC pattern holding a language-waiver exam
LoteWaived(a) ==
  /\ ge.pattern = "igetc"
  /\ a = "6A"
  /\ a \notin DOMAIN geState.orGroups
  /\ \E i \in 1..Len(Get(geState.alloc, a)) : IsLoteWaiver(geState.alloc[a][i])

\* the same with the unit minimum of a waived 6A counted as 0
MeetsMinimumOrWaived(a) ==
  /\ Len(Get(geState.alloc, a)) >= LeafMinimum(a).courses
  /\ LoteWaived(a) \/ AllocUnits(a) >= LeafMinimum(a).units

PercentIs(S, T) ==
  /\ geResult.percent \in 0..100
  /\ geResult.percent = (IF T = 0 THEN 0 ELSE RoundDiv(100 * S, T))

normalizeCode(raw) ==
  CASE raw = "biol-1" -> "BIOL 1"
    [] raw = "Chem  1" -> "CHEM 1"
    [] OTHER -> raw

\* state.courseAliases.alias_to_canonical_codes
alias_to_canonical_codes(code) == IF code = "BIO 2" THEN "BIOL 2" ELSE ""

canonicalizeCode(code) ==
  LET m == alias_to_canonical_codes(normalizeCode(code))
  IN IF m # "" THEN m ELSE normalizeCode(code)

\* String.prototype.toLowerCase on the requirement texts of the catalog below
toLowerCase(t) ==
  CASE t = "One year of High School Chemistry" -> "one year of high school chemistry"
    [] t = "Year of college Chemistry" -> "year of college chemistry"
    [] t = "Intermediate Algebra" -> "intermediate algebra"
    [] t = "Algebra II or equivalent" -> "algebra ii or equivalent"
    [] t = "Instructor consent" -> "instructor consent"
    [] OTHER -> t

\* txt.includes(phrase) for the phrases evalPrereqNode looks for
includes(txt, phrase) ==
  <<txt, phrase>> \in
    {<<"one year of high school chemistry", "high school chemistry">>,
     <<"one year of high school chemistry", "year of">>,
     <<"one year of high school chemistry", "chemistry">>,
     <<"year of college chemistry", "year of">>,
     <<"year of college chemistry", "chemistry">>,
     <<"intermediate algebra", "intermediate algebra">>,
     <<"intermediate algebra", "algebra">>,
     <<"algebra ii or equivalent", "algebra">>,
     <<"algebra ii or equivalent", "equivalent">>}

HSChemistry == [program |-> "Other", exam |-> "HS Chemistry (1 year)"]
IntAlgebra == [program |-> "Other", exam |-> "Intermediate Algebra"]

mathCourses ==
  <<"MATH 12", "MATH 13", "MATH 18", "MATH 20", "MATH 30", "MATH 31", "MATH 32", "MATH 42">>

\* one entry of an options array: a string, or a nested array
Str(s) == [str |-> s]
Arr(a) == [arr |-> a]

\* the object evalPrereqNode returns; "" stands for an absent singleOption or op
PrereqResult(met, options, singleOption, op, isCorequisite) ==
  [met |-> met, options |-> options, singleOption |-> singleOption, op |-> op,
   isCorequisite |-> isCorequisite]

HasCourse(node) == "course" \in DOMAIN node
HasText(node) == "text" \in DOMAIN node
IsOp(node, op) == "op" \in DOMAIN node /\ node.op = op

\* the AND branch with met taken from any child (mutation)
andResult_AnyMet(results) ==
  LET anyMet == \E i \in 1..Len(results) : results[i].met
      Unmet(r) == ~r.met
      Options(r) == Arr(r.options)
  IN PrereqResult(anyMet,
                  IF anyMet THEN << >> ELSE SeqMap(Options, SeqFilter(Unmet, results)),
                  "", "AND", FALSE)

\* lines 629-638
andResult(results) ==
  LET allMet == \A i \in 1..Len(results) : results[i].met
      Unmet(r) == ~r.met
      Options(r) == Arr(r.options)
      missingOptions == SeqMap(Options, SeqFilter(Unmet, results))
  IN PrereqResult(allMet, IF allMet THEN << >> ELSE missingOptions, "", "AND", FALSE)

\* the OR branch met only when exactly one child is met (mutation)
orResult_ExactlyOne(results) ==
  LET oneMet == Cardinality({i \in 1..Len(results) : results[i].met}) = 1
      Option(r) == IF r.singleOption # "" THEN <<Str(r.singleOption)>> ELSE r.options
      allOptions == Flat(SeqMap(Option, results))
  IN PrereqResult(oneMet, IF oneMet THEN << >> ELSE allOptions, "", "OR", FALSE)

\* lines 640-649; r.singleOption || r.options, then flat()
orResult(results) ==
  LET anyMet == \E i \in 1..Len(results) : results[i].met
      Option(r) == IF r.singleOption # "" THEN <<Str(r.singleOption)>> ELSE r.options
      allOptions == Flat(SeqMap(Option, results))
  IN PrereqResult(anyMet, IF anyMet THEN << >> ELSE allOptions, "", "OR", FALSE)

\* the course branch without the test of CompletionOrder (mutation)
courseResult_OrderIgnored(node, taken) ==
  LET code == normalizeCode(node.course)
      met == code \in taken \/ canonicalizeCode(code) \in taken
  IN PrereqResult(met, IF met THEN << >> ELSE <<Str(code)>>, code, "", FALSE)

\* lines 651-659
courseResult(node, taken) ==
  IF node.CompletionOrder = "Concurrent"
  THEN PrereqResult(TRUE, << >>, node.course, "", TRUE)
  ELSE LET code == normalizeCode(node.course)
           met == code \in taken \/ canonicalizeCode(code) \in taken
       IN PrereqResult(met, IF met THEN << >> ELSE <<Str(code)>>, code, "", FALSE)

\* lines 661-681
textResult(node, taken, exams) ==
  IF node.CompletionOrder = "Concurrent"
  THEN PrereqResult(TRUE, << >>, node.text, "", TRUE)
  ELSE LET txt == toLowerCase(node.text) IN
       IF \/ includes(txt, "high school chemistry")
          \/ includes(txt, "year of") /\ includes(txt, "chemistry")
       THEN LET met == HSChemistry \in exams
            IN PrereqResult(met,
                 IF met THEN << >> ELSE <<Str("HS Chemistry (or take CHEM 11/CHEM 51)")>>,
                 "HS_CHEMISTRY", "", FALSE)
       ELSE IF \/ includes(txt, "intermediate algebra")
               \/ includes(txt, "algebra") /\ includes(txt, "equivalent")
       THEN LET hasMath == \E i \in 1..Len(mathCourses) :
                             \/ normalizeCode(mathCourses[i]) \in taken
                             \/ canonicalizeCode(mathCourses[i]) \in taken
                met == IntAlgebra \in exams \/ hasMath
            IN PrereqResult(met, IF met THEN << >> ELSE <<Str("Intermediate Algebra")>>,
                            "HS_INT_ALGEBRA", "", FALSE)
       ELSE PrereqResult(TRUE, << >>, txt, "", FALSE)

\* lines 626-684 (the hsBackground argument is passed down and never read)
RECURSIVE evalPrereqNode(_, _, _)
evalPrereqNode(node, taken, exams) ==
  IF node = << >> THEN PrereqResult(TRUE, << >>, "", "", FALSE)
  ELSE IF IsOp(node, "AND") \/ IsOp(node, "OR")
  THEN Bind([i \in 1..Len(node.nodes) |-> evalPrereqNode(node.nodes[i], taken, exams)],
            LAMBDA results : IF node.op = "AND" THEN andResult(results)
                             ELSE orResult(results))
  ELSE IF HasCourse(node) THEN courseResult(node, taken)
  ELSE IF HasText(node) THEN textResult(node, taken, exams)
  ELSE PrereqResult(TRUE, << >>, "", "", FALSE)

\* RequirementTree nodes
CourseRef(course, order) == [course |-> course, CompletionOrder |-> order]
TextRef(text, order) == [text |-> text, CompletionOrder |-> order]
OpNode(op, nodes) == [op |-> op, nodes |-> nodes]

PrereqCodes == {"BIOL 1", "BIOL 2", "CHEM 1", "MATH 12"}

CourseLeaves ==
  {CourseRef("BIOL 1", ""), CourseRef("BIO 2", ""), CourseRef("Chem  1", ""),
   CourseRef("biol-1", "Concurrent"), CourseRef("CHEM 1", "Concurrent")}

TextLeaves ==
  {TextRef("One year of High School Chemistry", ""), TextRef("Algebra II or equivalent", ""),
   TextRef("Instructor consent", ""), TextRef("Intermediate Algebra", "Concurrent"),
   [note |-> "advisory"]}

InnerLeaves ==
  {CourseRef("BIOL 1", ""), CourseRef("Chem  1", ""), CourseRef("CHEM 1", "Concurrent"),
   TextRef("Year of college Chemistry", "")}

InnerNodes ==
  {OpNode(op, <<p[1], p[2]>>) :
     op \in {"AND", "OR"}, p \in {q \in InnerLeaves \X InnerLeaves : q[1] # q[2]}}
    \cup {OpNode("AND", << >>), OpNode("OR", << >>)}

RequirementTrees ==
  {OpNode(op, <<a, b>>) : op \in {"AND", "OR"}, a \in CourseLeaves \cup InnerNodes,
                          b \in CourseLeaves \cup TextLeaves \cup InnerNodes}
    \cup CourseLeaves \cup TextLeaves \cup InnerNodes

\* the course checked has a RequirementTree, or has none (getCoursePrereqs gives null)
InitPrereq ==
  /\ prereqs \in RequirementTrees \cup {<< >>}
  /\ takenSet \in SUBSET PrereqCodes
  /\ userExams \in SUBSET {HSChemistry, IntAlgebra}
  /\ prereqResult = << >>
  /\ pc = "prereq_start"
  /\ k = 1
  /\ detail = << >>
  /\ skipGESections = FALSE
  /\ sections = << >>
  /\ usedSet = {}
  /\ cross = NoCross
  /\ report = << >>
  /\ requiredAtomCount = 0
  /\ metAtomCount = 0
  /\ result = NoResult
  /\ GEIdle
  /\ earlier = << >>

\* checkPrereqsMet, lines 693-695: nothing to check
CheckNoPrereqs ==
  /\ pc = "prereq_start"
  /\ prereqs = << >>
  /\ prereqResult' = [met |-> TRUE, options |-> << >>, tree |-> << >>]
  /\ pc' = "prereq_done"
  /\ UNCHANGED <<k, progVars, geVars, prereqs, userExams, earlier>>

\* checkPrereqsMet, lines 697-699
CheckPrereqs ==
  /\ pc = "prereq_start"
  /\ prereqs # << >>
  /\ LET r == evalPrereqNode(prereqs, takenSet, userExams)
     IN prereqResult' = [met |-> r.met, options |-> r.options,
                         singleOption |-> r.singleOption, op |-> r.op,
                         isCorequisite |-> r.isCorequisite, tree |-> prereqs]
  /\ pc' = "prereq_done"
  /\ UNCHANGED <<k, progVars, geVars, prereqs, userExams, earlier>>

NextPrereq ==
  \/ CheckNoPrereqs
  \/ CheckPrereqs

SpecPrereq == InitPrereq /\ [][NextPrereq]_vars

(***************************************************************************)
(* Properties of the prerequisite evaluation                               *)
(***************************************************************************)
\* every node of a requirement tree
RECURSIVE NodesOf(_)
NodesOf(node) ==
  {node} \cup (IF "nodes" \in DOMAIN node
               THEN UNION {NodesOf(node.nodes[i]) : i \in 1..Len(node.nodes)}
               ELSE {})

Checked == pc = "prereq_done" /\ prereqs # << >>

\* what the evaluation reports for node n: the returned object for the root,
\* the evaluation of the subtree for an inner node
NodeResult(n) ==
  IF n = prereqs THEN prereqResult ELSE evalPrereqNode(n, takenSet, userExams)

ChildResult(n, i) == evalPrereqNode(n.nodes[i], takenSet, userExams)

\* the entries a child result r may add to the missing list of its parent:
\* under AND its own list as one entry, under OR its single option or the
\* entries of its list
Contribution(op, r) ==
  IF op = "AND" THEN {Arr(r.options)}
  ELSE IF r.singleOption # "" THEN {Str(r.singleOption)}
  ELSE Range(r.options)

AndOrNodeOk(n) ==
  LET r == NodeResult(n)
      kids == 1..Len(n.nodes)
  IN /\ IsOp(n, "AND") => (r.met <=> \A i \in kids : ChildResult(n, i).met)
     /\ IsOp(n, "OR") => (r.met <=> \E i \in kids : ChildResult(n, i).met)
     /\ r.met => r.options = << >>
     /\ ~r.met => \A j \in 1..Len(r.options) :
                    \E i \in kids : /\ ~ChildResult(n, i).met
                                    /\ r.options[j] \in Contribution(n.op, ChildResult(n, i))

\* C15: an AND node is met iff all its children are met, an OR node iff at
\* least one child is met; a met node has an empty missing list, and every entry
\* of an unmet node's missing list comes from one of its unmet children.
C15_AndOrNodes ==
  Checked => \A n \in NodesOf(prereqs) : (IsOp(n, "AND") \/ IsOp(n, "OR")) => AndOrNodeOk(n)

\* an unmet AND with a met child and an unmet OR child: the missing list is
\* the OR child's list alone
C15_Witness ==
  /\ Checked
  /\ IsOp(prereqs, "AND")
  /\ Len(prereqs.nodes) = 2
  /\ ChildResult(prereqs, 1).met
  /\ IsOp(prereqs.nodes[2], "OR")
  /\ ~prereqResult.met
  /\ prereqResult.options = <<Arr(<<Str("BIOL 1"), Str("CHEM 1")>>)>>

IsCoreq(n) == HasCourse(n) /\ n.CompletionOrder = "Concurrent"

Without(n, i) ==
  [n EXCEPT !.nodes = SubSeq(n.nodes, 1, i - 1) \o SubSeq(n.nodes, i + 1, Len(n.nodes))]

CourseLeafOk(n) ==
  LET r == NodeResult(n)
  IN IF IsCoreq(n) THEN r.met /\ r.options = << >>
     ELSE r.met <=> canonicalizeCode(n.course) \in takenSet

\* the missing list of a node with a co-requisite child: empty under OR, and
\* under AND the list the node has without that child
CoreqAddsNothing(n) ==
  \A i \in 1..Len(n.nodes) :
    IsCoreq(n.nodes[i]) =>
      NodeResult(n).options =
        (IF n.op = "OR" THEN << >>
         ELSE evalPrereqNode(Without(n, i), takenSet, userExams).options)

\* C16: a course leaf is met iff its canonical code is in the taken set, but a
\* leaf with CompletionOrder Concurrent is met whether or not the course is taken
\* and adds nothing to any missing list.
C16_CourseLeaves ==
  Checked => \A n \in NodesOf(prereqs) :
               /\ HasCourse(n) => CourseLeafOk(n)
               /\ (IsOp(n, "AND") \/ IsOp(n, "OR")) => CoreqAddsNothing(n)

\* an unmet AND of a co-requisite BIOL 1 that is not taken and a plain BIOL 1:
\* only the plain leaf is in the missing list
C16_Witness ==
  /\ Checked
  /\ IsOp(prereqs, "AND")
  /\ Len(prereqs.nodes) = 2
  /\ prereqs.nodes[1] = CourseRef("biol-1", "Concurrent")
  /\ prereqs.nodes[2] = CourseRef("BIOL 1", "")
  /\ "BIOL 1" \notin takenSet
  /\ ~prereqResult.met
  /\ prereqResult.options = <<Arr(<<Str("BIOL 1")>>)>>

(***************************************************************************)
(* Calls in sequence on the same catalog objects                           *)
(***************************************************************************)
\* the programs evaluated more than once
RepeatPrograms ==
  {CrossProgram(pm, mt) : pm \in PerListChoices({"X"}), mt \in {0, MaxMinTotal}}
    \cup {AllProgram("Select two"), CountProgram(<<1>>, <<MaxCount>>, <<"Pool">>)}

InitRepeat ==
  /\ InitProgram
  /\ detail \in RepeatPrograms

ProgramCalls(calls) == Cardinality({i \in 1..Len(calls) : calls[i].fn = "evaluateProgram"})

\* the call that has just returned
FinishedCall ==
  IF pc = "done"
  THEN [fn |-> "evaluateProgram", taken |-> takenSet, result |-> result]
  ELSE [fn |-> "evaluateGE", result |-> geResult]

\* the transcripts of the calls between the first and the last
OtherTranscripts == {T \in SUBSET Codes : Cardinality(T) = OtherTranscriptSize}

\* a further evaluateProgram call for the same detail object; the last call
\* of a sequence is given the transcript of the first
CallEvaluateProgram ==
  /\ pc \in {"done", "ge_done"}
  /\ detail # << >>
  /\ earlier' = Append(earlier, FinishedCall)
  /\ ProgramCalls(earlier') <= MaxEarlierCalls
  /\ takenSet' \in (IF ProgramCalls(earlier') = MaxEarlierCalls
                    THEN {earlier'[1].taken} ELSE OtherTranscripts)
  /\ pc' = "start"
  /\ k' = 1
  /\ UNCHANGED <<detail, skipGESections, sections, usedSet, cross, report,
                 requiredAtomCount, metAtomCount, result, geVars, prereqVars>>

\* an evaluateGE call between two evaluateProgram calls
CallEvaluateGE ==
  /\ pc = "done"
  /\ \A i \in 1..Len(earlier) : earlier[i].fn # "evaluateGE"
  /\ ProgramCalls(earlier) < MaxEarlierCalls
  /\ earlier' = Append(earlier, FinishedCall)
  /\ ge' = AndPattern(MaxGroupCourses, 0, 1)
  /\ okCourses' = GECodes
  /\ geState' = NewGEState
  /\ geResult' = NoGEResult
  /\ pc' = "ge_start"
  /\ UNCHANGED <<k, progVars, prereqVars>>

NextRepeat ==
  \/ NextProgram
  \/ NextGE
  \/ CallEvaluateProgram
  \/ CallEvaluateGE

SpecRepeat == InitRepeat /\ [][NextRepeat]_vars

(***************************************************************************)
(* Properties of the catalog objects across calls                          *)
(***************************************************************************)
\* the catalog carries a marker for a course the current transcript lacks
StaleMarker ==
  \E si \in 1..Len(detail.sections) : \E ii \in 1..Len(detail.sections[si].items) :
    /\ detail.sections[si].items[ii].matched
    /\ detail.sections[si].items[ii].chosen.code \notin takenSet

\* C17: an evaluateProgram call that follows earlier evaluateProgram and
\* evaluateGE calls on the same catalog objects returns what the first call
\* returned for the same transcript.
C17_CallsIndependent ==
  (pc = "done" /\ earlier # << >> /\ takenSet = earlier[1].taken) =>
    result = earlier[1].result

\* the third evaluateProgram call has returned, after an evaluateGE call and a
\* call with another transcript that left markers for courses not in this one
C17_Witness ==
  /\ pc = "done"
  /\ ProgramCalls(earlier) = MaxEarlierCalls
  /\ \E i \in 1..Len(earlier) : earlier[i].fn = "evaluateGE"
  /\ takenSet = earlier[1].taken
  /\ StaleMarker
  /\ result.hasCross
  /\ result.satisfied > 0
  /\ result = earlier[1].result

\* C18: no step of evaluateProgram changes a section or item object of
\* detail.sections; matched and chosen are written to the working copies only.
C18_CatalogUnchanged == [][detail' = detail]_vars

(***************************************************************************)
(* Properties of the OR trials                                             *)
(***************************************************************************)
\* evaluating child idx of the OR node of trial record tr alone, from the used
\* set and alloc map the node was entered with
WinnerAlone(tr) ==
  walk(tr.node.nodes[tr.best],
       [NewGEState EXCEPT !.used = tr.before.used, !.alloc = tr.before.alloc]).st

\* C19: every trial of an OR child starts from the used set and alloc map the
\* OR node was entered with and is restored to exactly them; what the OR node
\* leaves in used and alloc is what the winning child alone leaves, plus the
\* entry under the group label.
C19_TrialsDiscarded ==
  GEWalked =>
    \A t \in 1..Len(geState.trials) :
      LET tr == geState.trials[t] IN
      /\ \A c \in 1..Len(tr.choices) :
           /\ tr.choices[c].snap = tr.before
           /\ tr.choices[c].restored = tr.before
      /\ tr.after.used = WinnerAlone(tr).used
      /\ tr.after.alloc =
           Put(WinnerAlone(tr).alloc, tr.label,
               Get(WinnerAlone(tr).alloc,
                   chosenAreaOf(kidAreasOf(tr.node), WinnerAlone(tr).alloc)))

\* an OR node entered with courses already used, whose losing child allocated
\* courses in its trial and whose second child was committed
C19_Witness ==
  /\ GEWalked
  /\ \E t \in 1..Len(geState.trials) :
       LET tr == geState.trials[t] IN
       /\ tr.before.used # {}
       /\ tr.best = 2
       /\ tr.choices[1].score.courses > 0
       /\ tr.choices[1].restored = tr.before
       /\ tr.after.used # tr.before.used

(***************************************************************************)
(* Properties of pickForArea                                               *)
(***************************************************************************)
\* C20: an area leaf with distinct_disciplines whose allocation is below
\* min_units leaves none of its candidates unconsumed: the second pass takes the
\* candidates the first pass skipped for their discipline.
C20_SecondPassFillsUnits ==
  GEWalked =>
    \A a \in AreaLeavesOf(ge.logic) :
      findAreaSpec(ge.logic, a).distinct_disciplines > 0 =>
        \/ AllocUnits(a) >= findAreaSpec(ge.logic, a).min_units
        \/ Range(areaCandidates(a)) \subseteq geState.used

(***************************************************************************)
(* Properties of the AND node                                              *)
(***************************************************************************)
\* the allocation of the area or bucket child n meets n's own minima (the unit
\* minimum of a waived 6A counted as 0)
LeafChildSatisfied(n) ==
  /\ Len(Get(geState.alloc, AreaOrBucket(n))) >= n.min_courses
  /\ LoteWaived(AreaOrBucket(n)) \/ AllocUnits(AreaOrBucket(n)) >= n.min_units

\* the committed walk of the OR child n reported ok
OrChildSatisfied(n) ==
  \E t \in 1..Len(geState.trials) :
    geState.trials[t].node = n /\ geState.trials[t].committed

AreaChildrenSatisfied(node) ==
  \A i \in 1..Len(node.nodes) :
    HasArea(node.nodes[i]) => LeafChildSatisfied(node.nodes[i])

BucketChildrenSatisfied(node) ==
  \A i \in 1..Len(node.nodes) :
    (HasAreaOrBucket(node.nodes[i]) /\ ~HasArea(node.nodes[i]))
      => LeafChildSatisfied(node.nodes[i])

OrChildrenSatisfied(node) ==
  \A i \in 1..Len(node.nodes) :
    (HasOp(node.nodes[i]) /\ node.nodes[i].op = "OR") => OrChildSatisfied(node.nodes[i])

GroupMinimaMet(node) ==
  LET involvedAreas == SeqMap(AreaOrBucket, SeqFilter(HasAreaOrBucket, node.nodes))
  IN /\ HaveCourses(geState.alloc, involvedAreas) >= node.min_total_courses
     /\ HaveUnits(geState.alloc, involvedAreas) >= node.min_units

RootIsAnd == HasOp(ge.logic) /\ ge.logic.op = "AND"

\* C21: an AND node that reports ok has every area, bucket and OR child
\* satisfied and its min_total_courses / min_units met by the allocation of its
\* areas (checked on the root of the logic tree).
C21_AndNeedsEveryChild ==
  (GEWalked /\ RootIsAnd /\ geState.ok) =>
    /\ AreaChildrenSatisfied(ge.logic)
    /\ BucketChildrenSatisfied(ge.logic)
    /\ OrChildrenSatisfied(ge.logic)
    /\ GroupMinimaMet(ge.logic)

(***************************************************************************)
(* Properties of satisfyRequires                                           *)
(***************************************************************************)
\* the pool entries one satisfyRequires call consumed
ConsumedBy(r) == SubSeq(r.pool, 1, r.picked)

\* C22: every course a Require node consumed is in the used set and is recorded
\* in alloc under the from_areas area of its pool entry, and under
\* satisfies_area when that is set.
C22_RequireRecorded ==
  GEWalked =>
    \A x \in 1..Len(geState.requires) :
      LET r == geState.requires[x] IN
      \A i \in 1..Len(ConsumedBy(r)) :
        LET item == ConsumedBy(r)[i] IN
        /\ item.c \in r.after.used
        /\ item.c \in Range(Get(r.after.alloc, item.a))
        /\ r.require.satisfies_area # "" =>
             item.c \in Range(Get(r.after.alloc, r.require.satisfies_area))

\* C27: a Require node that reports itself satisfied has consumed at least
\* count different course codes.
C27_RequireCountsDistinct ==
  GEWalked =>
    \A x \in 1..Len(geState.requires) :
      LET r == geState.requires[x] IN
      r.ok => Cardinality({ConsumedBy(r)[i].c : i \in 1..Len(ConsumedBy(r))})
                >= (IF r.require.count = 0 THEN 1 ELSE r.require.count)

(***************************************************************************)
(* Properties of the OR groups                                             *)
(***************************************************************************)
\* the child the OR node n committed: best of its latest evaluation
BestOf(n) ==
  LET recs == {t \in 1..Len(geState.trials) : geState.trials[t].node = n}
  IN IF recs = {} THEN 0
     ELSE geState.trials[CHOOSE t \in recs : \A u \in recs : u <= t].best

\* the labels of the OR groups on the committed path of the walk
RECURSIVE CommittedLabels(_)
CommittedLabels(node) ==
  IF HasAreaOrBucket(node) \/ ~HasOp(node) THEN {}
  ELSE IF node.op = "OR"
  THEN {groupLabelOf(node)}
         \cup (IF BestOf(node) = 0 THEN {} ELSE CommittedLabels(node.nodes[BestOf(node)]))
  ELSE UNION {CommittedLabels(node.nodes[i]) : i \in 1..Len(node.nodes)}

\* the labels of all OR groups of a logic tree
RECURSIVE OrLabels(_)
OrLabels(node) ==
  (IF HasOp(node) /\ node.op = "OR" THEN {groupLabelOf(node)} ELSE {})
    \cup UNION {OrLabels(node.nodes[i]) : i \in 1..Len(node.nodes)}

\* C23: an OR group evaluated only inside a discarded trial branch has no entry
\* in orGroups and orChoice, nor in the returned displayGroups and perArea.
C23_CommittedGroupsOnly ==
  pc = "ge_done" =>
    \A label \in OrLabels(ge.logic) \ CommittedLabels(ge.logic) :
      /\ label \notin DOMAIN geState.orGroups
      /\ label \notin DOMAIN geState.orChoice
      /\ label \notin DOMAIN geResult.displayGroups
      /\ label \notin DOMAIN geResult.perArea

\* the child area a of an OR group meets its own min_courses and min_units
ChildAreaSatisfied(a) ==
  /\ Len(Get(geResult.alloc, a)) >= findAreaSpec(ge.logic, a).min_courses
  /\ sum(SeqMap(unitsFor, Get(geResult.alloc, a))) >= findAreaSpec(ge.logic, a).min_units

\* the OR groups that are leaves of the percent
OrGroupLeaves == OrLabels(ge.logic) \cap Range(listAreaLeaves(ge.logic))

\* C24: an OR group is counted as a satisfied leaf of the GE percent only if
\* some single child area meets both its own min_courses and its own min_units.
C24_OrGroupNeedsSatisfiedChild ==
  pc = "ge_done" =>
    \A label \in OrGroupLeaves :
      LeafDone(geResult.perArea, label) =>
        /\ label \in DOMAIN geResult.displayGroups
        /\ \E a \in Range(geResult.displayGroups[label]) : ChildAreaSatisfied(a)

(***************************************************************************)
(* Properties of the cross-list reports                                    *)
(***************************************************************************)
\* crossListSummary.earnedBySection[lname] || 0
EarnedBySection(lname) ==
  IF \E n \in 1..Len(cross.names) : cross.names[n] = lname
  THEN cross.earnedBySection[CHOOSE n \in 1..Len(cross.names) : cross.names[n] = lname]
  ELSE 0

\* C25: with a CROSS_LIST_UNITS rule the two cross-list reports of one result
\* agree: total_units equals crossListSummary.totalUnits, met_total equals
\* totalUnits >= minTotal, and a list is in per_list_min_status exactly when its
\* earnedBySection value is below its per-list minimum.
C25_CrossReportsAgree ==
  (pc = "done" /\ result.hasCross) =>
    \A i \in 1..Len(result.cross_list_checks) :
      LET f == result.cross_list_checks[i] IN
      /\ f.total_units = cross.totalUnits
      /\ f.met_total = (cross.totalUnits >= cross.minTotal)
      /\ {st.list : st \in f.per_list_min_status}
           = {lname \in DOMAIN cross.perMin : EarnedBySection(lname) < cross.perMin[lname]}

\* C26: in the CROSS_LIST_UNITS allocation each item (one any_of group)
\* contributes at most one chosen course to chosenBySection.
C26_OneCoursePerItem ==
  LET chosen == Flat(cross.chosenBySection) IN
  \A i, j \in 1..Len(chosen) :
    (chosen[i].si = chosen[j].si /\ chosen[i].ii = chosen[j].ii) => i = j

(***************************************************************************)
(* Properties of the evaluateProgram result                                *)
(***************************************************************************)
\* C28: the result satisfies 0 <= satisfied <= requiredItems and 0 <= pct <= 1
\* (pct is held as the integer percent), and with a cross-list rule isComplete
\* is true iff satisfied = requiredItems.
C28_ResultRanges ==
  pc = "done" =>
    /\ 0 <= result.satisfied
    /\ result.satisfied <= result.requiredItems
    /\ result.pct \in 0..100
    /\ result.hasCross => (result.isComplete <=> result.satisfied = result.requiredItems)

\* a finished evaluation with a cross-list rule, every atom met, beside atoms of
\* ALL items
C28_Witness ==
  /\ pc = "done"
  /\ result.hasCross
  /\ result.isComplete
  /\ result.requiredItems > 1 + Cardinality(DOMAIN cross.perMin)
  /\ result.pct = 100

(***************************************************************************)
(* Monotonicity in the taken set                                           *)
(***************************************************************************)
\* C29: with the background flags fixed, a prerequisite tree met for the taken
\* set T is met for every superset of T.
C29_PrereqMonotone ==
  (pc = "prereq_done" /\ prereqs # << >> /\ prereqResult.met) =>
    \A T \in SUBSET PrereqCodes :
      takenSet \subseteq T => evalPrereqNode(prereqs, T, userExams).met

\* a tree with an OR node that is met for the taken set, not met for the empty
\* set, and checked against a proper superset
C29_Witness ==
  /\ pc = "prereq_done"
  /\ prereqs # << >>
  /\ prereqResult.met
  /\ \E n \in NodesOf(prereqs) : IsOp(n, "OR") /\ Len(n.nodes) = 2
  /\ ~evalPrereqNode(prereqs, {}, userExams).met
  /\ takenSet # PrereqCodes

\* every working section of the program is an ALL section and no rule spans lists
AllOnly(d) ==
  /\ d.cross_list_rules = << >>
  /\ \A i \in 1..Len(d.sections) :
       ruleTypeOf(WorkingSection(d.sections[i]).rule.type) = "ALL"

\* the ALL / LIST loop of evaluateProgram on fresh working copies, for the taken set T
MatchedFor(T) ==
  AllishSections([w |-> [secs |-> [i \in 1..Len(detail.sections) |->
                                     WorkingSection(detail.sections[i])],
                         used |-> {}],
                  req |-> 0, met |-> 0],
                 1, detail, T, skipGESections)

\* C30: for a program made only of ALL sections, adding course codes to the
\* taken set never lowers the number of satisfied atoms.
C30_AllMonotone ==
  (pc = "done" /\ AllOnly(detail)) =>
    /\ result.satisfied = MatchedFor(takenSet).met
    /\ \A T \in SUBSET Codes :
         takenSet \subseteq T => MatchedFor(T).met >= result.satisfied

\* an ALL-only program where adding a code moves an item from its second option
\* to its first and the number of satisfied atoms stays the same
C30_Witness ==
  /\ pc = "done"
  /\ AllOnly(detail)
  /\ result.satisfied > 0
  /\ \E c \in Codes \ takenSet :
       /\ MatchedFor(takenSet \cup {c}).met = result.satisfied
       /\ \E si \in 1..Len(sections) : \E ii \in 1..Len(sections[si].items) :
            /\ sections[si].items[ii].matched
            /\ sections[si].items[ii].chosen.code # c
            /\ MatchedFor(takenSet \cup {c}).w.secs[si].items[ii].chosen.code = c

====
